---- MODULE Spec2Model ----
(***************************************************************************)
(* The weight-loss competition application: the Firestore document store   *)
(* it keeps (users, competitions/{year}, .../participants/{userId},        *)
(* .../weigh-ins/{weekNumber}), the CompetitionService and AuthService     *)
(* operations over it, and the page handlers that call them.               *)
(*                                                                         *)
(* The repository holds several divergent versions of CompetitionService.  *)
(* Each is modelled under its own suffix:                                  *)
(*   _A  src/src/services/competitionService.ts lines 17-268 (untyped)     *)
(*   _T  src/src/services/competitionService.ts lines 286-530 (typed)      *)
(*   _L  src/unnamed/part_004 lines 17-324 (untyped, logging)              *)
(* All versions act on the same database.                                  *)
(*                                                                         *)
(* Weights are counted in tenths of a pound (the forms use step="0.1"),    *)
(* so 220.0 lbs is 2200.  Results of divisions are exact fractions; the    *)
(* rounding of IEEE-754 doubles is not modelled.                           *)
(***************************************************************************)
EXTENDS Integers, Sequences, FiniteSets, TLC

VARIABLES
    db,          \* the Firestore database: one function per collection, path -> document
    accounts,    \* Firebase Authentication: the uids that have an account
    user,        \* the browser session: the uid signed in (auth.currentUser), or none
    rules,       \* the security rules the project is deployed with
    chart,       \* LeaderboardChart: the component's data state
    now,         \* the clock, in days
    weighInPage, \* WeighInPage: the component's state, null while it is not shown
    adminUsers,  \* AdminPage: the users state it hands to UserManagement
    selectedCompetition, \* UserManagement: the selected year, NoYear for null
    lastWrite,   \* history: weigh-in key -> the arguments of the last submitWeighIn applied to it
    rewritten,   \* history: the weigh-in keys that were overwritten with a different weight
    testCall,    \* history: the TestDataService call the last step made, if it was one
    progressChart, \* PersonalProgressChart: the component's data state
    authFetches, \* onAuthStateChanged: the uids whose getUserData has not answered yet
    authUser,    \* onAuthStateChanged: what the callback was last called with
    secondTab,   \* WeighInPage: the state of the page in a second tab of the browser
    routeElement \* ProtectedRoute: its props, what useAuth gave it and what it rendered last

vars == <<db, accounts, user, rules, chart, now, weighInPage, adminUsers, selectedCompetition,
          lastWrite, rewritten, testCall, progressChart, authFetches, authUser,
          secondTab, routeElement>>

\* what a call to the service alone leaves as it is
sessionVars == <<accounts, user, rules, chart, now, weighInPage, adminUsers, selectedCompetition>>

\* the state of the pages
pageVars == <<chart, weighInPage, adminUsers, selectedCompetition>>

historyVars == <<lastWrite, rewritten>>

listenerVars == <<authFetches, authUser>>

\* the state only the test data tools and the components below touch
otherVars == <<testCall, progressChart, listenerVars, secondTab, routeElement>>

\* a step that is no call of TestDataService; year 0 is no year
NoTestCall == [name |-> "none", year |-> 0, deleted |-> 0]

InitOther ==
    /\ testCall = NoTestCall
    /\ progressChart = <<>>
    /\ authFetches = {}
    /\ authUser = [isNull |-> TRUE]   \* null: nobody was delivered
    /\ secondTab = [isNull |-> TRUE]  \* null: not open
    /\ routeElement = [isNull |-> TRUE] \* null: not rendered

---------------------------------------------------------------------------
(* JavaScript numbers, as exact fractions.  den > 0: a finite number in    *)
(* lowest terms; den = 0: NaN (num = 0) or +/-Infinity (num = +/-1);       *)
(* den = -1: undefined (a field that is not there).                        *)

Abs(n) == IF n < 0 THEN -n ELSE n

Sign(n) == IF n < 0 THEN -1 ELSE IF n > 0 THEN 1 ELSE 0

RECURSIVE Gcd(_, _)
Gcd(a, b) == IF b = 0 THEN a ELSE Gcd(b, a % b)

Frac(n, d) ==
    LET g == Gcd(Abs(n), d)
    IN  [num |-> n \div g, den |-> d \div g]

Num(n) == [num |-> n, den |-> 1]

NaN == [num |-> 0, den |-> 0]

Infinity(s) == [num |-> s, den |-> 0]

undefined == [num |-> 0, den |-> -1]

IsFinite(x) == x.den > 0

IsInfinite(x) == x.den = 0 /\ x.num # 0

\* a - b
JsSub(a, b) ==
    IF IsFinite(a) /\ IsFinite(b)
    THEN Frac(a.num * b.den - b.num * a.den, a.den * b.den)
    ELSE IF IsInfinite(a) /\ IsFinite(b) THEN a
    ELSE IF IsFinite(a) /\ IsInfinite(b) THEN Infinity(-b.num)
    ELSE IF IsInfinite(a) /\ IsInfinite(b) /\ a.num # b.num THEN a
    ELSE NaN

\* a / b
JsDiv(a, b) ==
    IF IsFinite(a) /\ IsFinite(b)
    THEN IF b.num = 0
         THEN IF a.num = 0 THEN NaN ELSE Infinity(Sign(a.num))
         ELSE Frac(a.num * b.den * Sign(b.num), a.den * Abs(b.num))
    ELSE IF IsInfinite(a) /\ IsFinite(b)
         THEN Infinity(IF b.num < 0 THEN -a.num ELSE a.num)
    ELSE IF IsFinite(a) /\ IsInfinite(b) THEN Num(0)
    ELSE NaN

\* a * b
JsMul(a, b) ==
    IF IsFinite(a) /\ IsFinite(b)
    THEN Frac(a.num * b.num, a.den * b.den)
    ELSE IF (IsInfinite(a) \/ IsFinite(a)) /\ (IsInfinite(b) \/ IsFinite(b))
              /\ a.num # 0 /\ b.num # 0
         THEN Infinity(Sign(a.num) * Sign(b.num))
    ELSE NaN

\* Math.max(a, b): NaN when either is not a number
JsMax(a, b) ==
    IF IsFinite(a) /\ IsFinite(b)
    THEN IF a.num * b.den >= b.num * a.den THEN a ELSE b
    ELSE IF IsInfinite(a) /\ (IsFinite(b) \/ IsInfinite(b))
         THEN IF a.num > 0 THEN a ELSE b
    ELSE IF IsInfinite(b) /\ IsFinite(a)
         THEN IF b.num > 0 THEN b ELSE a
    ELSE NaN

\* the numeric field f of a document, undefined when the document has none
NumField(doc, f) == IF f \in DOMAIN doc THEN Num(doc[f]) ELSE undefined

\* the string field f of a document; <<>> is undefined, <<s>> the string s
StringField(doc, f) == IF f \in DOMAIN doc THEN <<doc[f]>> ELSE <<>>

---------------------------------------------------------------------------
(* Number.prototype.toString of a natural number, as its decimal digits:   *)
(* 10 is <<1, 0>>.  Document ids are such strings.                         *)

RECURSIVE toString(_)
toString(n) == IF n < 10 THEN <<n>> ELSE toString(n \div 10) \o <<n % 10>>

\* the order of strings (Firestore orders a collection by document id)
RECURSIVE StringLess(_, _)
StringLess(a, b) ==
    IF a = <<>> THEN b # <<>>
    ELSE IF b = <<>> THEN FALSE
    ELSE IF a[1] # b[1] THEN a[1] < b[1]
    ELSE StringLess(Tail(a), Tail(b))

---------------------------------------------------------------------------
(* The document store.  A collection is a function from the paths of its   *)
(* documents to their data; a document's data is a record of its fields.   *)

\* the value null
null == [isNull |-> TRUE]

\* nobody is signed in (auth.currentUser is null)
none == "none"

\* the sentinel serverTimestamp() hands to a write
serverTimestamp == "serverTimestamp"

\* new Date() as a stored field: the client's clock at the call
newDate == "new Date()"

\* setDoc(ref, data): the document is replaced whole
setDoc(coll, ref, data) ==
    [p \in DOMAIN coll \cup {ref} |-> IF p = ref THEN data ELSE coll[p]]

\* the fields of old overwritten by those of data
MergeFields(old, data) ==
    [f \in DOMAIN old \cup DOMAIN data |-> IF f \in DOMAIN data THEN data[f] ELSE old[f]]

\* setDoc(ref, data, { merge: true }): only the given fields are written
setDocMerge(coll, ref, data) ==
    setDoc(coll, ref, IF ref \in DOMAIN coll THEN MergeFields(coll[ref], data) ELSE data)

\* deleteDoc(ref)
deleteDoc(coll, ref) == [p \in DOMAIN coll \ {ref} |-> coll[p]]

EmptyCollection == [p \in {} |-> [none |-> 0]]

EmptyDb ==
    [users |-> EmptyCollection, competitions |-> EmptyCollection,
     participants |-> EmptyCollection, weighIns |-> EmptyCollection]

\* doc(db, 'competitions', year, 'participants', userId, 'weigh-ins', weekNumber)
weighInRef(year, userId, weekNumber) == <<toString(year), userId, toString(weekNumber)>>

\* doc(db, 'competitions', year, 'participants', userId)
participantRef(year, userId) == <<toString(year), userId>>

\* the paths of collection(db, 'competitions', year, 'participants', userId, 'weigh-ins')
weighInsRef(d, year, userId) ==
    {p \in DOMAIN d.weighIns : p[1] = toString(year) /\ p[2] = userId}

\* the id of the document at a path: the path's last segment
DocId(ref) == ref[Len(ref)]

\* the result of a call: the database it leaves, and whether it threw
Done(d) == [db |-> d, threw |-> FALSE]

Threw(d) == [db |-> d, threw |-> TRUE]

---------------------------------------------------------------------------
(* An optional string argument: <<>> is undefined, <<s>> is the string s.  *)

\* notes || ''
OrEmpty(notes) == IF notes = <<>> THEN "" ELSE notes[1]

---------------------------------------------------------------------------
(* CompetitionService.submitWeighIn, in its three versions.                *)

\* a merging write, for comparison: the weigh-in is merged into the stored document
submitWeighIn_A_merge(d, year, userId, weekNumber, weight, notes) ==
    Done([d EXCEPT !.weighIns =
        setDocMerge(@, weighInRef(year, userId, weekNumber),
            [weekNumber |-> weekNumber, weight |-> weight,
             notes |-> OrEmpty(notes), timestamp |-> serverTimestamp])])

submitWeighIn_A(d, year, userId, weekNumber, weight, notes) ==
    Done([d EXCEPT !.weighIns =
        setDoc(@, weighInRef(year, userId, weekNumber),
            [weekNumber |-> weekNumber, weight |-> weight,
             notes |-> OrEmpty(notes), timestamp |-> serverTimestamp])])

\* The typed version writes notes as given: the store refuses a field whose
\* value is undefined, and the call throws before anything is written.
submitWeighIn_T(d, year, userId, weekNumber, weight, notes) ==
    IF notes = <<>>
    THEN Threw(d)
    ELSE Done([d EXCEPT !.weighIns =
            setDoc(@, weighInRef(year, userId, weekNumber),
                [weekNumber |-> weekNumber, weight |-> weight, date |-> newDate,
                 timestamp |-> serverTimestamp, notes |-> notes[1]])])

\* The logging version also creates or updates the participant document.
submitWeighIn_L(d, year, userId, weekNumber, weight, notes) ==
    Done([d EXCEPT
        !.weighIns =
            setDoc(@, weighInRef(year, userId, weekNumber),
                [weekNumber |-> weekNumber, weight |-> weight,
                 notes |-> OrEmpty(notes), timestamp |-> serverTimestamp]),
        !.participants =
            setDocMerge(@, participantRef(year, userId),
                [userId |-> userId, name |-> "Unknown User",
                 joinedAt |-> serverTimestamp, lastWeighIn |-> serverTimestamp,
                 totalWeighIns |-> 1])])

Versions == {"A", "T", "L"}

\* CompetitionService.submitWeighIn of the build in use
submitWeighIn(v, d, year, userId, weekNumber, weight, notes) ==
    CASE v = "A" -> submitWeighIn_A(d, year, userId, weekNumber, weight, notes)
      [] v = "T" -> submitWeighIn_T(d, year, userId, weekNumber, weight, notes)
      [] v = "L" -> submitWeighIn_L(d, year, userId, weekNumber, weight, notes)

\* submitWeighIn when the store rejects the rejected-th write of the call
\* (0: none).  Each write is awaited once and its rejection is not caught, so
\* the call rejects at the first rejected write; attempts counts the setDoc
\* calls made.  The logging version makes two writes, the others one.
submitWeighInStore(v, d, year, userId, weekNumber, weight, notes, rejected) ==
    LET r == submitWeighIn(v, d, year, userId, weekNumber, weight, notes)
    IN  IF v = "T" /\ notes = <<>>
        THEN [db |-> d, threw |-> TRUE, attempts |-> 1]
        ELSE IF rejected = 1
        THEN [db |-> d, threw |-> TRUE, attempts |-> 1]
        ELSE IF v = "L" /\ rejected = 2
        THEN [db |-> [d EXCEPT !.weighIns = r.db.weighIns], threw |-> TRUE, attempts |-> 2]
        ELSE [db |-> r.db, threw |-> r.threw, attempts |-> IF v = "L" THEN 2 ELSE 1]

\* CompetitionService.addParticipant (typed version only)
addParticipant(d, year, userId, name, startWeight) ==
    Done([d EXCEPT !.participants =
        setDoc(@, participantRef(year, userId),
            [name |-> name, startWeight |-> startWeight,
             joinedAt |-> serverTimestamp, isActive |-> TRUE])])

---------------------------------------------------------------------------
(* Competitions.  A date is a whole number of days; a competition lasts    *)
(* 12 weeks.  Settings are a record that may lack any of startDate,        *)
(* weighInDates and status (Partial<CompetitionSettings>).                 *)

DaysPerWeek == 7

CompetitionWeeks == 12

\* doc(db, 'competitions', year)
competitionRef(year) == <<toString(year)>>

\* the 12 weekly dates from startDate on
GeneratedWeighInDates(startDate) ==
    [i \in 1..CompetitionWeeks |-> startDate + (i - 1) * DaysPerWeek]

\* updateDoc(ref, data): fails when the document does not exist
updateDoc(d, coll, ref, data) ==
    IF ref \in DOMAIN d[coll]
    THEN Done([d EXCEPT ![coll] = setDoc(@, ref, MergeFields(d[coll][ref], data))])
    ELSE Threw(d)

\* for comparison: no weigh-in dates are generated, an absent list is stored
\* as the empty list
createCompetition_A_noDates(d, year, settings, createdBy) ==
    Done([d EXCEPT !.competitions =
        setDoc(@, competitionRef(year),
            [year |-> year,
             startDate |-> settings.startDate,
             endDate |-> settings.startDate + CompetitionWeeks * DaysPerWeek,
             status |-> settings.status,
             weighInDates |-> IF "weighInDates" \in DOMAIN settings
                              THEN settings.weighInDates ELSE <<>>,
             createdAt |-> serverTimestamp,
             createdBy |-> createdBy])])

\* untyped version: generates the weigh-in dates when none are given
createCompetition_A(d, year, settings, createdBy) ==
    LET given == IF "weighInDates" \in DOMAIN settings THEN settings.weighInDates ELSE <<>>
        weighInDates == IF Len(given) = 0 THEN GeneratedWeighInDates(settings.startDate)
                        ELSE given
    IN  Done([d EXCEPT !.competitions =
            setDoc(@, competitionRef(year),
                [year |-> year,
                 startDate |-> settings.startDate,
                 endDate |-> settings.startDate + CompetitionWeeks * DaysPerWeek,
                 status |-> settings.status,
                 weighInDates |-> weighInDates,
                 createdAt |-> serverTimestamp,
                 createdBy |-> createdBy])])

\* typed version: writes the weigh-in dates as given; the store refuses an
\* undefined field and the call throws
createCompetition_T(d, year, settings, createdBy) ==
    IF "weighInDates" \notin DOMAIN settings
    THEN Threw(d)
    ELSE Done([d EXCEPT !.competitions =
            setDoc(@, competitionRef(year),
                [year |-> year,
                 startDate |-> settings.startDate,
                 endDate |-> settings.startDate + CompetitionWeeks * DaysPerWeek,
                 status |-> settings.status,
                 weighInDates |-> settings.weighInDates,
                 createdAt |-> serverTimestamp,
                 createdBy |-> createdBy])])

\* untyped version: every given setting is written, with the time of the update
updateCompetition_A(d, year, settings) ==
    updateDoc(d, "competitions", competitionRef(year),
        MergeFields(settings, [updatedAt |-> serverTimestamp]))

\* typed version: the settings that are given are written
updateCompetitionSettings_T(d, year, settings) ==
    updateDoc(d, "competitions", competitionRef(year),
        [f \in DOMAIN settings \cap {"startDate", "weighInDates", "status"} |-> settings[f]])

archiveCompetition_A(d, year) == updateCompetition_A(d, year, [status |-> "archived"])

archiveCompetition_T(d, year) == updateCompetitionSettings_T(d, year, [status |-> "archived"])

\* CompetitionService.updateParticipant (typed version only): the given fields
\* among name, startWeight and isActive are written; an empty name is not
updateParticipant(d, year, userId, updates) ==
    updateDoc(d, "participants", participantRef(year, userId),
        [f \in {g \in DOMAIN updates \cap {"name", "startWeight", "isActive"} :
                    g = "name" => updates.name # ""} |-> updates[f]])

\* getDocs(query(collection(db, 'competitions'), orderBy('year', 'desc')))
RECURSIVE OrderByYearDesc(_, _)
OrderByYearDesc(coll, refs) ==
    LET with == {x \in refs : "year" \in DOMAIN coll[x]}
    IN  IF with = {} THEN <<>>
        ELSE LET first == CHOOSE x \in with : \A y \in with \ {x} :
                            \/ coll[x].year > coll[y].year
                            \/ /\ coll[x].year = coll[y].year
                               /\ StringLess(DocId(y), DocId(x))
             IN  <<first>> \o OrderByYearDesc(coll, with \ {first})

\* getCompetitions: the competitions, newest year first
getCompetitions(d) ==
    LET docs == OrderByYearDesc(d.competitions, DOMAIN d.competitions)
    IN  [i \in 1..Len(docs) |->
            [f \in DOMAIN d.competitions[docs[i]] \cap
                    {"year", "startDate", "endDate", "status", "weighInDates",
                     "createdAt", "createdBy"} |-> d.competitions[docs[i]][f]]]

\* Math.max
Max(a, b) == IF a >= b THEN a ELSE b

\* Math.min
Min(a, b) == IF a <= b THEN a ELSE b

\* for comparison: the week counted on without the limits 1 and 12
getCurrentWeek_unlimited(startDate, today) ==
    (today - startDate) \div DaysPerWeek + 1

\* getCurrentWeek(startDate), read when the clock shows today
getCurrentWeek(startDate, today) ==
    LET diffTime == today - startDate
        diffWeeks == diffTime \div DaysPerWeek
    IN  Max(1, Min(12, diffWeeks + 1))

\* isCompetitionActive(competition), read when the clock shows today
isCompetitionActive(competition, today) ==
    /\ competition.status = "active"
    /\ competition.startDate <= today
    /\ competition.endDate >= today

\* hasWeighInForWeek
hasWeighInForWeek(d, year, userId, weekNumber) ==
    weighInRef(year, userId, weekNumber) \in DOMAIN d.weighIns

---------------------------------------------------------------------------
(* Reading the weigh-ins of a participant.                                 *)

\* getDocs(collection): the documents in the order of their ids
RECURSIVE OrderById(_)
OrderById(refs) ==
    IF refs = {} THEN <<>>
    ELSE LET first == CHOOSE x \in refs :
                        \A y \in refs \ {x} : StringLess(DocId(x), DocId(y))
         IN  <<first>> \o OrderById(refs \ {first})

\* getDocs(query(collection, orderBy('weekNumber', 'asc'))): the documents that
\* have the field, in the order of its value, ties in the order of the ids
RECURSIVE OrderByWeekNumber(_, _)
OrderByWeekNumber(coll, refs) ==
    LET with == {x \in refs : "weekNumber" \in DOMAIN coll[x]}
    IN  IF with = {} THEN <<>>
        ELSE LET first == CHOOSE x \in with : \A y \in with \ {x} :
                            \/ coll[x].weekNumber < coll[y].weekNumber
                            \/ /\ coll[x].weekNumber = coll[y].weekNumber
                               /\ StringLess(DocId(x), DocId(y))
             IN  <<first>> \o OrderByWeekNumber(coll, with \ {first})

\* docs.map(doc => ({ id: doc.id, ...doc.data() }))
WithId(coll, ref) == MergeFields([id |-> DocId(ref)], coll[ref])

\* getWeighIns of the untyped versions: no ordering is asked for
getWeighIns_A(d, year, userId) ==
    LET docs == OrderById(weighInsRef(d, year, userId))
    IN  [i \in 1..Len(docs) |-> WithId(d.weighIns, docs[i])]

\* the moment a read happens: data.date?.toDate() || new Date()
dateOfRead == "date of the read"

\* the fields the typed getWeighIns copies out of a document
TypedWeighIn(data) ==
    LET copied == {"weekNumber", "weight", "notes"} \cap DOMAIN data
    IN  MergeFields([f \in copied |-> data[f]],
            [date |-> IF "date" \in DOMAIN data THEN data.date ELSE dateOfRead,
             timestamp |-> IF "timestamp" \in DOMAIN data THEN data.timestamp ELSE dateOfRead])

\* getWeighIns of the typed version: ordered by the weekNumber field
getWeighIns_T(d, year, userId) ==
    LET docs == OrderByWeekNumber(d.weighIns, weighInsRef(d, year, userId))
    IN  [i \in 1..Len(docs) |-> TypedWeighIn(d.weighIns[docs[i]])]

---------------------------------------------------------------------------
(* CompetitionService.getUserStats.  Numbers in the result are JavaScript  *)
(* numbers (fractions, NaN, undefined).                                    *)

\* for comparison: the average is taken over the 12 weeks of a competition
getUserStats_T_over12(d, year, userId) ==
    IF participantRef(year, userId) \notin DOMAIN d.participants
    THEN null
    ELSE LET participant == d.participants[participantRef(year, userId)]
             weighIns == getWeighIns_T(d, year, userId)
             latestWeighIn == weighIns[Len(weighIns)]
             totalWeightLoss ==
                JsSub(NumField(participant, "startWeight"), NumField(latestWeighIn, "weight"))
         IN  IF Len(weighIns) = 0
             THEN [userId |-> userId,
                   name |-> StringField(participant, "name"),
                   startWeight |-> NumField(participant, "startWeight"),
                   currentWeight |-> NumField(participant, "startWeight"),
                   totalWeightLoss |-> Num(0),
                   totalWeightLossPercentage |-> Num(0),
                   averageWeeklyLoss |-> Num(0),
                   weeksParticipated |-> Num(0)]
             ELSE [userId |-> userId,
                   name |-> StringField(participant, "name"),
                   startWeight |-> NumField(participant, "startWeight"),
                   currentWeight |-> NumField(latestWeighIn, "weight"),
                   totalWeightLoss |-> totalWeightLoss,
                   totalWeightLossPercentage |->
                        JsMul(JsDiv(totalWeightLoss, NumField(participant, "startWeight")), Num(100)),
                   averageWeeklyLoss |-> JsDiv(totalWeightLoss, Num(12)),
                   weeksParticipated |-> Num(Len(weighIns)),
                   lastWeighIn |-> latestWeighIn.date]

\* for comparison: the loss is counted from the first weigh-in, not from the start weight
getUserStats_T_fromFirst(d, year, userId) ==
    IF participantRef(year, userId) \notin DOMAIN d.participants
    THEN null
    ELSE LET participant == d.participants[participantRef(year, userId)]
             weighIns == getWeighIns_T(d, year, userId)
             latestWeighIn == weighIns[Len(weighIns)]
             totalWeightLoss ==
                JsSub(NumField(weighIns[1], "weight"), NumField(latestWeighIn, "weight"))
         IN  IF Len(weighIns) = 0
             THEN [userId |-> userId,
                   name |-> StringField(participant, "name"),
                   startWeight |-> NumField(participant, "startWeight"),
                   currentWeight |-> NumField(participant, "startWeight"),
                   totalWeightLoss |-> Num(0),
                   totalWeightLossPercentage |-> Num(0),
                   averageWeeklyLoss |-> Num(0),
                   weeksParticipated |-> Num(0)]
             ELSE [userId |-> userId,
                   name |-> StringField(participant, "name"),
                   startWeight |-> NumField(participant, "startWeight"),
                   currentWeight |-> NumField(latestWeighIn, "weight"),
                   totalWeightLoss |-> totalWeightLoss,
                   totalWeightLossPercentage |->
                        JsMul(JsDiv(totalWeightLoss, NumField(weighIns[1], "weight")), Num(100)),
                   averageWeeklyLoss |-> JsDiv(totalWeightLoss, Num(Len(weighIns))),
                   weeksParticipated |-> Num(Len(weighIns)),
                   lastWeighIn |-> latestWeighIn.date]

\* typed version: null when the participant document is missing; the start
\* weight is the participant's
getUserStats_T(d, year, userId) ==
    IF participantRef(year, userId) \notin DOMAIN d.participants
    THEN null
    ELSE LET participant == d.participants[participantRef(year, userId)]
             weighIns == getWeighIns_T(d, year, userId)
             latestWeighIn == weighIns[Len(weighIns)]
             totalWeightLoss ==
                JsSub(NumField(participant, "startWeight"), NumField(latestWeighIn, "weight"))
         IN  IF Len(weighIns) = 0
             THEN [userId |-> userId,
                   name |-> StringField(participant, "name"),
                   startWeight |-> NumField(participant, "startWeight"),
                   currentWeight |-> NumField(participant, "startWeight"),
                   totalWeightLoss |-> Num(0),
                   totalWeightLossPercentage |-> Num(0),
                   averageWeeklyLoss |-> Num(0),
                   weeksParticipated |-> Num(0)]
             ELSE [userId |-> userId,
                   name |-> StringField(participant, "name"),
                   startWeight |-> NumField(participant, "startWeight"),
                   currentWeight |-> NumField(latestWeighIn, "weight"),
                   totalWeightLoss |-> totalWeightLoss,
                   totalWeightLossPercentage |->
                        JsMul(JsDiv(totalWeightLoss, NumField(participant, "startWeight")), Num(100)),
                   averageWeeklyLoss |-> JsDiv(totalWeightLoss, Num(Len(weighIns))),
                   weeksParticipated |-> Num(Len(weighIns)),
                   lastWeighIn |-> latestWeighIn.date]

\* untyped version: the participant document is not read; the loss is counted
\* from the first document of the unordered query to the last
getUserStats_A(d, year, userId) ==
    LET weighIns == getWeighIns_A(d, year, userId)
        firstWeight == NumField(weighIns[1], "weight")
        lastWeight == NumField(weighIns[Len(weighIns)], "weight")
        totalLoss == JsSub(firstWeight, lastWeight)
    IN  IF Len(weighIns) = 0
        THEN [userId |-> userId,
              totalWeighIns |-> Num(0),
              currentWeight |-> Num(0),
              totalWeightLoss |-> Num(0),
              totalWeightLossPercentage |-> Num(0),
              weeksParticipated |-> Num(0),
              weighIns |-> <<>>]
        ELSE [userId |-> userId,
              totalWeighIns |-> Num(Len(weighIns)),
              currentWeight |-> lastWeight,
              totalWeightLoss |-> totalLoss,
              totalWeightLossPercentage |-> JsMul(JsDiv(totalLoss, firstWeight), Num(100)),
              weeksParticipated |-> Num(Len(weighIns)),
              weighIns |-> weighIns]

\* logging version: as the untyped one, with a start weight and an average
getUserStats_L(d, year, userId) ==
    LET weighIns == getWeighIns_A(d, year, userId)
        firstWeight == NumField(weighIns[1], "weight")
        lastWeight == NumField(weighIns[Len(weighIns)], "weight")
        totalLoss == JsSub(firstWeight, lastWeight)
    IN  IF Len(weighIns) = 0
        THEN [userId |-> userId,
              displayName |-> "Unknown User",
              startWeight |-> Num(0),
              currentWeight |-> Num(0),
              totalWeightLoss |-> Num(0),
              totalWeightLossPercentage |-> Num(0),
              averageWeeklyLoss |-> Num(0),
              weeksParticipated |-> Num(0),
              totalWeighIns |-> Num(0),
              weighIns |-> <<>>]
        ELSE [userId |-> userId,
              displayName |-> "Unknown User",
              startWeight |-> firstWeight,
              currentWeight |-> lastWeight,
              totalWeightLoss |-> totalLoss,
              totalWeightLossPercentage |-> JsMul(JsDiv(totalLoss, firstWeight), Num(100)),
              averageWeeklyLoss |-> JsDiv(totalLoss, Num(Len(weighIns))),
              weeksParticipated |-> Num(Len(weighIns)),
              totalWeighIns |-> Num(Len(weighIns)),
              weighIns |-> weighIns]

---------------------------------------------------------------------------
(* The security rules.  "documented" are the rules of the README;          *)
(* "permissive" lets every request through, as the testing guide asks.     *)

\* doc(db, 'users', uid)
userRef(uid) == <<uid>>

\* get(/databases/$(database)/documents/users/$(request.auth.uid)).data.role
RoleOf(d, auth) ==
    IF userRef(auth) \in DOMAIN d.users /\ "role" \in DOMAIN d.users[userRef(auth)]
    THEN d.users[userRef(auth)].role
    ELSE none

\* the README's rules for one document: method is "read" or "write", coll the
\* collection of the document and ref its path
RuleAllows(d, auth, method, coll, ref) ==
    CASE coll = "users" ->
            \/ auth # none /\ auth = ref[1]
            \/ method = "read" /\ auth # none /\ RoleOf(d, auth) = "admin"
      [] coll = "competitions" ->
            IF method = "read"
            THEN auth # none
            ELSE auth # none /\ RoleOf(d, auth) = "admin"
      [] coll = "participants" -> auth # none /\ auth = ref[2]
      [] coll = "weighIns" -> auth # none /\ auth = ref[2]

\* the README's rules for a query over a whole collection: it is let through
\* only if every document the collection could hold may be read.  parent is
\* the path of the document the collection hangs from.
RuleAllowsList(d, auth, coll, parent) ==
    CASE coll = "users" -> auth # none /\ RoleOf(d, auth) = "admin"
      [] coll = "competitions" -> auth # none
      [] coll = "participants" -> FALSE
      [] coll = "weighIns" -> auth # none /\ auth = parent[2]

Allowed(d, auth, method, coll, ref) ==
    rules = "permissive" \/ RuleAllows(d, auth, method, coll, ref)

AllowedList(d, auth, coll, parent) ==
    rules = "permissive" \/ RuleAllowsList(d, auth, coll, parent)

---------------------------------------------------------------------------
(* AuthService.  An account is known by its e-mail address; the identity   *)
(* provider gives it a uid.                                                *)

\* the uid the identity provider gives the account of an e-mail address
UidOf(email) ==
    CASE email = "ann@example.com" -> "u1"
      [] email = "bob@example.com" -> "u2"
      [] email = "admin@example.com" -> "a1"

\* the user document register writes
RegisteredUser(uid, email, displayName) ==
    [uid |-> uid, email |-> email, displayName |-> displayName, role |-> "regular",
     createdAt |-> serverTimestamp, lastLoginAt |-> serverTimestamp]

\* updateLastLogin
updateLastLogin(d, uid) ==
    Done([d EXCEPT !.users = setDocMerge(@, userRef(uid), [lastLoginAt |-> serverTimestamp])])

\* updateUserRole: no check of who calls
updateUserRole(d, uid, role) ==
    Done([d EXCEPT !.users = setDocMerge(@, userRef(uid), [role |-> role])])

\* a field of a document that is not there, where the fields are strings
absent == "undefined"

FieldOf(data, field) == IF field \in DOMAIN data THEN data[field] ELSE absent

\* getErrorMessage
getErrorMessage(errorCode) ==
    CASE errorCode = "auth/user-not-found" -> "No user found with this email address"
      [] errorCode = "auth/wrong-password" -> "Incorrect password"
      [] errorCode = "auth/email-already-in-use" -> "An account with this email already exists"
      [] errorCode = "auth/weak-password" -> "Password should be at least 6 characters"
      [] errorCode = "auth/invalid-email" -> "Invalid email address"
      [] errorCode = "auth/too-many-requests" ->
            "Too many failed attempts. Please try again later"
      [] OTHER -> "An error occurred. Please try again"

\* a step of a call that the provider or the store fails, with the code of
\* the error it throws; step 0: none
NoFailure == [step |-> 0, code |-> absent]

\* getUserData: the document is read and its fields are copied; a document
\* that is not there is an Error without a code
getUserData(d, uid, fail) ==
    IF fail.step = 4
    THEN [threw |-> TRUE, code |-> fail.code, value |-> null]
    ELSE IF ~Allowed(d, uid, "read", "users", userRef(uid))
    THEN [threw |-> TRUE, code |-> "permission-denied", value |-> null]
    ELSE IF userRef(uid) \notin DOMAIN d.users
    THEN [threw |-> TRUE, code |-> absent, value |-> null]
    ELSE LET data == d.users[userRef(uid)]
         IN  [threw |-> FALSE, code |-> absent,
              value |-> [uid |-> FieldOf(data, "uid"),
                         email |-> FieldOf(data, "email"),
                         displayName |-> FieldOf(data, "displayName"),
                         role |-> FieldOf(data, "role"),
                         createdAt |-> IF "createdAt" \in DOMAIN data
                                       THEN data.createdAt ELSE newDate,
                         lastLoginAt |-> FieldOf(data, "lastLoginAt")]]

\* what signIn and register give: the store, the accounts and the session
\* they leave, and the user they resolve to or the message of the Error
\* they reject with; code is error.code of the error the catch block caught
AuthFailed(d, accts, session, code) ==
    [db |-> d, accounts |-> accts, session |-> session, threw |-> TRUE,
     code |-> code, message |-> getErrorMessage(code), value |-> null]

AuthDone(d, accts, session, value) ==
    [db |-> d, accounts |-> accts, session |-> session, threw |-> FALSE,
     code |-> absent, message |-> absent, value |-> value]

\* for comparison: a signIn that resolves to the session's identity when the
\* user document cannot be read
signIn_withoutUserData(d, accts, session, form, fail) ==
    LET uid == UidOf(form.email)
        d3 == updateLastLogin(d, uid).db
        userData == getUserData(d3, uid, fail)
    IN  IF fail.step \in {1, 2} THEN AuthFailed(d, accts, session, fail.code)
        ELSE IF uid \notin accts
        THEN AuthFailed(d, accts, session, "auth/user-not-found")
        ELSE IF fail.step = 3 THEN AuthFailed(d, accts, uid, fail.code)
        ELSE IF ~Allowed(d, uid, "write", "users", userRef(uid))
        THEN AuthFailed(d, accts, uid, "permission-denied")
        ELSE IF userData.threw
        THEN AuthDone(d3, accts, uid,
                      [uid |-> uid, email |-> form.email, displayName |-> absent,
                       role |-> "regular", createdAt |-> newDate, lastLoginAt |-> newDate])
        ELSE AuthDone(d3, accts, uid, userData.value)

\* signIn: 1 setPersistence, 2 signInWithEmailAndPassword, 3 updateLastLogin,
\* 4 getUserData
signIn(d, accts, session, form, fail) ==
    LET uid == UidOf(form.email)
        d3 == updateLastLogin(d, uid).db
        userData == getUserData(d3, uid, fail)
    IN  IF fail.step = 1 THEN AuthFailed(d, accts, session, fail.code)
        ELSE IF fail.step = 2 THEN AuthFailed(d, accts, session, fail.code)
        ELSE IF uid \notin accts
        THEN AuthFailed(d, accts, session, "auth/user-not-found")
        ELSE IF fail.step = 3 THEN AuthFailed(d, accts, uid, fail.code)
        ELSE IF ~Allowed(d, uid, "write", "users", userRef(uid))
        THEN AuthFailed(d, accts, uid, "permission-denied")
        ELSE IF userData.threw THEN AuthFailed(d3, accts, uid, userData.code)
        ELSE AuthDone(d3, accts, uid, userData.value)

\* register: 1 createUserWithEmailAndPassword, 2 updateProfile, 3 setDoc of
\* the user document
register(d, accts, session, form, fail) ==
    LET uid == UidOf(form.email)
        created == accts \cup {uid}
    IN  IF fail.step = 1 THEN AuthFailed(d, accts, session, fail.code)
        ELSE IF uid \in accts
        THEN AuthFailed(d, accts, session, "auth/email-already-in-use")
        ELSE IF fail.step = 2 THEN AuthFailed(d, created, uid, fail.code)
        ELSE IF fail.step = 3 THEN AuthFailed(d, created, uid, fail.code)
        ELSE IF ~Allowed(d, uid, "write", "users", userRef(uid))
        THEN AuthFailed(d, created, uid, "permission-denied")
        ELSE AuthDone([d EXCEPT !.users =
                        setDoc(@, userRef(uid),
                               RegisteredUser(uid, form.email, form.displayName))],
                      created, uid,
                      [uid |-> uid, email |-> form.email,
                       displayName |-> form.displayName, role |-> "regular",
                       createdAt |-> newDate, lastLoginAt |-> newDate])

---------------------------------------------------------------------------
(* LeaderboardChart.                                                       *)

\* the order of the user ids, which are strings
UidRank(uid) ==
    CASE uid = "a1" -> 0
      [] uid = "u1" -> 1
      [] uid = "u2" -> 2
      [] uid = "u3" -> 3
      [] uid = "u4" -> 4
      [] uid = "u5" -> 5
      [] uid = "u6" -> 6

RECURSIVE OrderByUid(_)
OrderByUid(refs) ==
    IF refs = {} THEN <<>>
    ELSE LET first == CHOOSE x \in refs :
                        \A y \in refs \ {x} : UidRank(DocId(x)) < UidRank(DocId(y))
         IN  <<first>> \o OrderByUid(refs \ {first})

\* the paths of collection(db, 'competitions', year, 'participants')
participantsRef(d, year) == {p \in DOMAIN d.participants : p[1] = toString(year)}

\* getParticipants of the typed version
getParticipants_T(d, year) ==
    LET docs == OrderByUid(participantsRef(d, year))
    IN  [i \in 1..Len(docs) |->
            MergeFields(
                [f \in DOMAIN d.participants[docs[i]] \cap {"name", "startWeight", "isActive"}
                    |-> d.participants[docs[i]][f]],
                [userId |-> DocId(docs[i]),
                 joinedAt |-> IF "joinedAt" \in DOMAIN d.participants[docs[i]]
                              THEN d.participants[docs[i]].joinedAt ELSE dateOfRead])]

ColorCount == 15

\* for comparison: the percentage as computed, without Math.max
ChartPoints_signed(participant, weighIns) ==
    [k \in 1..Len(weighIns) |->
        LET weightLoss == JsSub(NumField(participant, "startWeight"),
                                NumField(weighIns[k], "weight"))
        IN  [week |-> weighIns[k].weekNumber,
             weight |-> NumField(weighIns[k], "weight"),
             weightLossPercentage |->
                JsMul(JsDiv(weightLoss, NumField(participant, "startWeight")), Num(100)),
             weightLoss |-> weightLoss]]

\* the points of one participant's line
ChartPoints(participant, weighIns) ==
    [k \in 1..Len(weighIns) |->
        LET weightLoss == JsSub(NumField(participant, "startWeight"),
                                NumField(weighIns[k], "weight"))
            weightLossPercentage ==
                JsMul(JsDiv(weightLoss, NumField(participant, "startWeight")), Num(100))
        IN  [week |-> weighIns[k].weekNumber,
             weight |-> NumField(weighIns[k], "weight"),
             weightLossPercentage |-> JsMax(Num(0), weightLossPercentage),
             weightLoss |-> weightLoss]]

\* for (let i = 0; ...): the participants that have weigh-ins, each with its line
RECURSIVE ParticipantData(_, _, _, _)
ParticipantData(d, year, participants, i) ==
    IF i > Len(participants) THEN <<>>
    ELSE LET weighIns == getWeighIns_T(d, year, participants[i].userId)
         IN  (IF Len(weighIns) = 0 THEN <<>>
              ELSE <<[userId |-> participants[i].userId,
                      name |-> StringField(participants[i], "name"),
                      data |-> ChartPoints(participants[i], weighIns),
                      color |-> (i - 1) % ColorCount]>>)
             \o ParticipantData(d, year, participants, i + 1)

\* loadChartData, for the signed-in user auth: the new data state.  A read
\* the rules refuse throws; the error is caught and the state stays.
loadChartData(d, auth, year, data) ==
    IF ~AllowedList(d, auth, "participants", competitionRef(year))
    THEN data
    ELSE LET participants == getParticipants_T(d, year)
         IN  IF Len(participants) = 0 THEN <<>>
             ELSE IF \E i \in 1..Len(participants) :
                        ~AllowedList(d, auth, "weighIns",
                                     participantRef(year, participants[i].userId))
                  THEN data
                  ELSE ParticipantData(d, year, participants, 1)

---------------------------------------------------------------------------
(* The leaderboard of the untyped version and the Top Performers of        *)
(* CompetitionStats.                                                       *)

\* the comparator (a, b) => b.totalWeightLoss - a.totalWeightLoss, by its sign;
\* a comparator that returns NaN counts as returning 0
ByTotalWeightLoss(a, b) ==
    LET diff == JsSub(b.totalWeightLoss, a.totalWeightLoss)
    IN  IF IsFinite(diff) \/ IsInfinite(diff) THEN Sign(diff.num) ELSE 0

\* x, which came before the elements of sorted, put in its place among them
RECURSIVE InsertSorted(_, _)
InsertSorted(x, sorted) ==
    IF sorted = <<>> THEN <<x>>
    ELSE IF ByTotalWeightLoss(x, sorted[1]) > 0
         THEN <<sorted[1]>> \o InsertSorted(x, Tail(sorted))
         ELSE <<x>> \o sorted

\* Array.prototype.sort with that comparator: the sort is stable
RECURSIVE SortByTotalWeightLoss(_)
SortByTotalWeightLoss(stats) ==
    IF stats = <<>> THEN <<>>
    ELSE InsertSorted(stats[1], SortByTotalWeightLoss(Tail(stats)))

\* the loop of getAllUserStats over the participant documents from the i-th on:
\* an entry for each participant that has weigh-ins
RECURSIVE UserStatsFrom(_, _, _, _)
UserStatsFrom(d, year, docs, i) ==
    IF i > Len(docs) THEN <<>>
    ELSE LET userId == DocId(docs[i])
             data == d.participants[docs[i]]
             weighIns == getWeighIns_A(d, year, userId)
             firstWeight == NumField(weighIns[1], "weight")
             lastWeight == NumField(weighIns[Len(weighIns)], "weight")
             totalLoss == JsSub(firstWeight, lastWeight)
         IN  (IF Len(weighIns) > 0
              THEN <<[userId |-> userId,
                      displayName |-> IF "displayName" \in DOMAIN data /\ data.displayName # ""
                                      THEN data.displayName ELSE "Unknown User",
                      totalWeighIns |-> Num(Len(weighIns)),
                      firstWeight |-> firstWeight,
                      lastWeight |-> lastWeight,
                      totalWeightLoss |-> totalLoss,
                      totalWeightLossPercentage |->
                          JsMul(JsDiv(totalLoss, firstWeight), Num(100)),
                      weeksParticipated |-> Num(Len(weighIns)),
                      weighIns |-> weighIns]>>
              ELSE <<>>)
             \o UserStatsFrom(d, year, docs, i + 1)

\* for comparison: the entries are returned in the order of the participants
getAllUserStats_A_unsorted(d, year) ==
    UserStatsFrom(d, year, OrderByUid(participantsRef(d, year)), 1)

\* getAllUserStats of the untyped version, when the store answers every read
getAllUserStats_A(d, year) ==
    SortByTotalWeightLoss(UserStatsFrom(d, year, OrderByUid(participantsRef(d, year)), 1))

\* getLeaderboard: the statistics, each with its place as rank
getLeaderboard(d, year) ==
    LET userStats == getAllUserStats_A(d, year)
    IN  [index \in 1..Len(userStats) |-> MergeFields(userStats[index], [rank |-> index])]

\* the reads of the store a call makes, in the order it starts them: the
\* listing of the participants, the listing of a participant's weigh-ins,
\* the get of a participant's document
ListParticipants == <<"participants", none>>

ListWeighIns(userId) == <<"weigh-ins", userId>>

GetParticipant(userId) == <<"participant", userId>>

\* the untyped getAllUserStats lists the participants and then, one after
\* the other, the weigh-ins of each
ReadsOf_A(d, year) ==
    LET docs == OrderByUid(participantsRef(d, year))
    IN  <<ListParticipants>> \o [i \in 1..Len(docs) |-> ListWeighIns(DocId(docs[i]))]

\* the typed getAllUserStats lists the participants and then starts a
\* getUserStats for each: the get of the document, then its weigh-ins
ReadsOf_T(d, year) ==
    LET docs == OrderByUid(participantsRef(d, year))
    IN  <<ListParticipants>> \o
        [k \in 1..(2 * Len(docs)) |->
            IF k % 2 = 1 THEN GetParticipant(DocId(docs[(k + 1) \div 2]))
            ELSE ListWeighIns(DocId(docs[k \div 2]))]

\* getAllUserStats of the typed version, when the store answers every read
getAllUserStats_T(d, year) ==
    LET participants == getParticipants_T(d, year)
        stats == [i \in 1..Len(participants) |->
                    getUserStats_T(d, year, participants[i].userId)]
    IN  SelectSeq(stats, LAMBDA stat : stat # null)

\* getAllUserStats of the untyped version when the store fails the read
\* numbered failedRead (0: none): the catch block returns []
getAllUserStatsStore_A(d, year, failedRead) ==
    LET reads == ReadsOf_A(d, year)
    IN  IF failedRead \in 1..Len(reads)
        THEN [threw |-> FALSE, value |-> <<>>, reads |-> SubSeq(reads, 1, failedRead)]
        ELSE [threw |-> FALSE, value |-> getAllUserStats_A(d, year), reads |-> reads]

\* getAllUserStats of the typed version when the store fails a read: there
\* is no catch block; the getUserStats calls run side by side, so the one
\* whose get fails does not list its weigh-ins and the others go on
getAllUserStatsStore_T(d, year, failedRead) ==
    LET reads == ReadsOf_T(d, year)
    IN  IF failedRead = 1
        THEN [threw |-> TRUE, value |-> null, reads |-> <<ListParticipants>>]
        ELSE IF failedRead \in 2..Len(reads)
        THEN [threw |-> TRUE, value |-> null,
              reads |-> IF failedRead % 2 = 0
                        THEN SubSeq(reads, 1, failedRead) \o
                             SubSeq(reads, failedRead + 2, Len(reads))
                        ELSE reads]
        ELSE [threw |-> FALSE, value |-> getAllUserStats_T(d, year), reads |-> reads]

getAllUserStatsStore(v, d, year, failedRead) ==
    IF v = "T" THEN getAllUserStatsStore_T(d, year, failedRead)
    ELSE getAllUserStatsStore_A(d, year, failedRead)

\* getUserStats of the untyped version when the store fails its read: the
\* catch block returns the statistics of a user without weigh-ins
getUserStatsStore_A(d, year, userId, failedRead) ==
    IF failedRead = 1
    THEN [threw |-> FALSE,
          value |-> [userId |-> userId,
                     totalWeighIns |-> Num(0),
                     currentWeight |-> Num(0),
                     totalWeightLoss |-> Num(0),
                     totalWeightLossPercentage |-> Num(0),
                     weeksParticipated |-> Num(0),
                     weighIns |-> <<>>],
          reads |-> <<ListWeighIns(userId)>>]
    ELSE [threw |-> FALSE, value |-> getUserStats_A(d, year, userId),
          reads |-> <<ListWeighIns(userId)>>]

\* getTopPerformers(limit = 5)
TopPerformersLimit == 5

\* getTopPerformers of CompetitionStats: allStats sorted, and its first entries
getTopPerformers(allStats, limit) ==
    SubSeq(SortByTotalWeightLoss(allStats), 1, Min(limit, Len(allStats)))

---------------------------------------------------------------------------
(* The pages.  A page that is not shown has no state; signing in or out    *)
(* leaves every page.                                                      *)

\* useState<number | null>(null) of UserManagement
NoYear == 0

PagesClosed ==
    /\ chart = <<>>
    /\ weighInPage = null
    /\ adminUsers = {}
    /\ selectedCompetition = NoYear

\* every page is left
ClosePages ==
    /\ chart' = <<>>
    /\ weighInPage' = null
    /\ adminUsers' = {}
    /\ selectedCompetition' = NoYear

\* for comparison: a route that does not look at the role
ProtectedRouteElement_anyRole(loading, authenticated, requireAdmin) ==
    IF loading THEN "LoadingSpinner"
    ELSE IF authenticated = null THEN "/login"
    ELSE "children"

\* ProtectedRoute: what it renders for the loading flag and the user of
\* useAuth: the spinner, a Navigate to a path, or its children
ProtectedRouteElement(loading, authenticated, requireAdmin) ==
    IF loading THEN "LoadingSpinner"
    ELSE IF authenticated = null THEN "/login"
    ELSE IF requireAdmin /\ authenticated.role # "admin" THEN "/dashboard"
    ELSE "children"

\* ProtectedRoute: whether the children are shown to the signed-in user,
\* once the session and the user document are loaded
ProtectedRoute(d, auth, requireAdmin) ==
    ProtectedRouteElement(FALSE,
                          IF auth = none THEN null ELSE [role |-> RoleOf(d, auth)],
                          requireAdmin) = "children"

\* competitions.find(comp => CompetitionService.isCompetitionActive(comp))
FindActive(competitions, today) ==
    LET hits == {i \in 1..Len(competitions) : isCompetitionActive(competitions[i], today)}
    IN  IF hits = {} THEN null
        ELSE competitions[CHOOSE i \in hits : \A j \in hits : i <= j]

\* getWeighIns of the build in use
getWeighIns(v, d, year, userId) ==
    IF v = "T" THEN getWeighIns_T(d, year, userId) ELSE getWeighIns_A(d, year, userId)

\* the state a WeighInPage of build b (1: part_008, 2: AdminPage.tsx) starts with
WeighInPageMounted(b) ==
    [build |-> b, currentCompetition |-> null, currentWeek |-> 1,
     hasSubmittedThisWeek |-> FALSE, lastWeighIn |-> null,
     loading |-> TRUE, submitting |-> FALSE, toast |-> none]

\* what both loaders set once they have a competition and a user
WithWeighIns(page, v, d, auth, competition, today) ==
    LET week == getCurrentWeek(competition.startDate, today)
        weighIns == getWeighIns(v, d, competition.year, auth)
    IN  [page EXCEPT
            !.currentCompetition = competition,
            !.currentWeek = week,
            !.hasSubmittedThisWeek = hasWeighInForWeek(d, competition.year, auth, week),
            !.lastWeighIn = IF Len(weighIns) > 0 THEN weighIns[Len(weighIns)] ELSE @,
            !.loading = FALSE]

\* loadWeighInData of the first build: the page state it leaves
loadWeighInData(page, v, d, auth, today) ==
    IF auth = none THEN page
    ELSE LET activeCompetition == FindActive(getCompetitions(d), today)
         IN  IF activeCompetition # null
             THEN WithWeighIns(page, v, d, auth, activeCompetition, today)
             ELSE [page EXCEPT !.loading = FALSE]

\* loadCompetitions of the second build: without an active competition it
\* falls back to the first of the list
loadCompetitions(page, v, d, auth, today) ==
    LET comps == getCompetitions(d)
        found == FindActive(comps, today)
        activeCompetition == IF found # null THEN found ELSE comps[1]
    IN  IF Len(comps) = 0 THEN [page EXCEPT !.loading = FALSE]
        ELSE IF auth = none
             THEN [page EXCEPT !.currentCompetition = activeCompetition,
                               !.currentWeek = getCurrentWeek(activeCompetition.startDate, today),
                               !.loading = FALSE]
             ELSE WithWeighIns(page, v, d, auth, activeCompetition, today)

\* a > b
JsGreater(a, b) ==
    IF IsFinite(a) /\ IsFinite(b) THEN a.num * b.den > b.num * a.den
    ELSE IF IsInfinite(a) /\ (IsFinite(b) \/ IsInfinite(b)) THEN a.num > 0 /\ a # b
    ELSE IF IsFinite(a) /\ IsInfinite(b) THEN b.num < 0
    ELSE FALSE

\* validateWeight of the first build: TRUE when the value may be submitted.
\* value and the stored weights are in tenths of a pound.
validateWeight(value, lastWeighIn) ==
    IF value = 0 \/ value <= 0 THEN FALSE
    ELSE IF value > 1000 * 10 THEN FALSE
    ELSE IF lastWeighIn # null
         THEN LET change == Num(Abs(value - lastWeighIn.weight))
                  percentageChange ==
                    JsMul(JsDiv(change, NumField(lastWeighIn, "weight")), Num(100))
              IN  ~JsGreater(percentageChange, Num(10))
         ELSE TRUE

\* the weight rules of the second build's form: min 50, max 1000
validateWeight2(value) == value >= 50 * 10 /\ value <= 1000 * 10

\* onSubmit of the first build, once the form's validation has passed: the
\* database and the page state it leaves
onSubmit(page, v, d, auth, today, weight, notes) ==
    LET r == submitWeighIn(v, d, page.currentCompetition.year, auth,
                           page.currentWeek, weight, notes)
    IN  IF r.threw
        THEN [db |-> d, page |-> [page EXCEPT !.toast = "Failed to submit weigh-in"]]
        ELSE [db |-> r.db,
              page |-> loadWeighInData(
                          [page EXCEPT !.hasSubmittedThisWeek = TRUE,
                                       !.toast = "Weigh-in submitted successfully!"],
                          v, r.db, auth, today)]

\* onSubmit of the first build when the store may reject a write of the call
onSubmitStore(page, v, d, auth, today, weight, notes, rejected) ==
    LET r == submitWeighInStore(v, d, page.currentCompetition.year, auth,
                                page.currentWeek, weight, notes, rejected)
    IN  IF r.threw
        THEN [db |-> r.db, page |-> [page EXCEPT !.toast = "Failed to submit weigh-in"]]
        ELSE [db |-> r.db,
              page |-> loadWeighInData(
                          [page EXCEPT !.hasSubmittedThisWeek = TRUE,
                                       !.toast = "Weigh-in submitted successfully!"],
                          v, r.db, auth, today)]

\* onSubmit of the second build: no reload
onSubmit2(page, v, d, auth, weight, notes) ==
    LET r == submitWeighIn(v, d, page.currentCompetition.year, auth,
                           page.currentWeek, weight, notes)
    IN  IF r.threw
        THEN [db |-> d, page |-> [page EXCEPT !.toast = "Failed to submit weigh-in"]]
        ELSE [db |-> r.db,
              page |-> [page EXCEPT !.hasSubmittedThisWeek = TRUE,
                                    !.toast = "Weigh-in submitted successfully!"]]

\* loadAdminData: the users AdminPage shows are the participants of the
\* active competition
loadAdminData(d, today) ==
    LET activeCompetition == FindActive(getCompetitions(d), today)
        participants == getParticipants_T(d, activeCompetition.year)
    IN  IF activeCompetition # null
        THEN {participants[i].userId : i \in 1..Len(participants)}
        ELSE {}

\* loadUserStats of UserManagement: the year it selects
loadUserStats(selected, d, users, today) ==
    LET competitions == getCompetitions(d)
        found == FindActive(competitions, today)
        activeCompetition == IF found # null THEN found ELSE competitions[1]
    IN  IF Len(competitions) = 0 \/ users = {} THEN selected
        ELSE activeCompetition.year

\* handleUpdateWeighIn and handleEditWeighIn of UserManagement: the week and
\* the weight go to submitWeighIn as they come, without notes
handleUpdateWeighIn(selected, v, d, userId, weekNumber, newWeight) ==
    IF selected = NoYear THEN Done(d)
    ELSE submitWeighIn(v, d, selected, userId, weekNumber, newWeight, <<>>)

---------------------------------------------------------------------------
(* Inputs of the weigh-in specification.                                   *)

Years == {2026}

UserIds == {"u1"}

WeekInputs == {2, 10}

WeightInputs == {2152, 2185}

NotesInputs == {<<>>, <<"">>, <<"felt good">>}

NameInputs == {"Ann"}

StartWeightInputs == {2200}

---------------------------------------------------------------------------
(* History of the weigh-in writes, kept beside the database.               *)

NoteWrite(d, ref, v, weekNumber, weight, notes) ==
    /\ lastWrite' = setDoc(lastWrite, ref,
            [version |-> v, weekNumber |-> weekNumber, weight |-> weight, notes |-> notes])
    /\ rewritten' =
            IF ref \in DOMAIN d.weighIns /\ d.weighIns[ref].weight # weight
            THEN rewritten \cup {ref}
            ELSE rewritten

Init ==
    /\ db = EmptyDb
    /\ accounts = {}
    /\ user = none
    /\ rules = "permissive"
    /\ PagesClosed
    /\ now = 0
    /\ lastWrite = EmptyCollection
    /\ rewritten = {}
    /\ InitOther

\* A client calls submitWeighIn of version v and the store applies the write.
\* track: whether the history of the writes is kept.
SubmitWeighIn(v, year, userId, weekNumber, weight, notes, track) ==
    LET r == submitWeighIn(v, db, year, userId, weekNumber, weight, notes)
    IN  /\ db' = r.db
        /\ IF r.threw \/ ~track
           THEN UNCHANGED historyVars
           ELSE NoteWrite(db, weighInRef(year, userId, weekNumber),
                          v, weekNumber, weight, notes)
        /\ UNCHANGED <<sessionVars, otherVars>>

AddParticipant(year, userId, name, startWeight) ==
    /\ db' = addParticipant(db, year, userId, name, startWeight).db
    /\ UNCHANGED <<sessionVars, historyVars, otherVars>>

SubmitWeighIn_A ==
    \E year \in Years, userId \in UserIds, weekNumber \in WeekInputs,
       weight \in WeightInputs, notes \in NotesInputs :
        /\ SubmitWeighIn("A", year, userId, weekNumber, weight, notes, TRUE)

SubmitWeighIn_T ==
    \E year \in Years, userId \in UserIds, weekNumber \in WeekInputs,
       weight \in WeightInputs, notes \in NotesInputs :
        /\ SubmitWeighIn("T", year, userId, weekNumber, weight, notes, TRUE)

SubmitWeighIn_L ==
    \E year \in Years, userId \in UserIds, weekNumber \in WeekInputs,
       weight \in WeightInputs, notes \in NotesInputs :
        /\ SubmitWeighIn("L", year, userId, weekNumber, weight, notes, TRUE)

Join ==
    \E year \in Years, userId \in UserIds, name \in NameInputs,
       startWeight \in StartWeightInputs :
        /\ AddParticipant(year, userId, name, startWeight)

Next ==
    \/ SubmitWeighIn_A
    \/ SubmitWeighIn_T
    \/ SubmitWeighIn_L
    \/ Join

Spec == Init /\ [][Next]_vars

---------------------------------------------------------------------------
(* Properties of the weigh-in upsert.                                      *)

\* the fields a weigh-in written by version v has
WeighInFields(v) ==
    IF v = "T"
    THEN {"weekNumber", "weight", "date", "timestamp", "notes"}
    ELSE {"weekNumber", "weight", "notes", "timestamp"}

\* C1: at any time there is at most one weigh-in record per (year, userId,
\* weekNumber), and the record of every key that submitWeighIn was applied to
\* holds, whole, the week, weight and notes of the write applied last: no
\* field of an earlier write survives it.
C1_UpsertLastWriteWins ==
    /\ \A p, q \in DOMAIN db.weighIns :
            (p[1] = q[1] /\ p[2] = q[2]
                /\ db.weighIns[p].weekNumber = db.weighIns[q].weekNumber) => p = q
    /\ \A ref \in DOMAIN lastWrite :
            /\ ref \in DOMAIN db.weighIns
            /\ Cardinality({p \in DOMAIN db.weighIns :
                    /\ p[1] = ref[1] /\ p[2] = ref[2]
                    /\ db.weighIns[p].weekNumber = lastWrite[ref].weekNumber}) = 1
            /\ db.weighIns[ref].weekNumber = lastWrite[ref].weekNumber
            /\ db.weighIns[ref].weight = lastWrite[ref].weight
            /\ db.weighIns[ref].notes = OrEmpty(lastWrite[ref].notes)
            /\ DOMAIN db.weighIns[ref] = WeighInFields(lastWrite[ref].version)

\* a weigh-in written by the typed version was overwritten, with a different
\* weight, by the untyped one
C1_Overwritten ==
    \E ref \in rewritten :
        /\ ref \in DOMAIN db.weighIns
        /\ lastWrite[ref].version = "A"
        /\ db.weighIns[ref].weight = 2152

---------------------------------------------------------------------------
(* The statistics specification: one participant joins and weigh-ins are   *)
(* submitted through any version; getUserStats is read in every state.     *)

StatsWeeks == {1, 2, 3, 10}

StatsWeights == {2152, 2160, 2185}

StatsNotes == {<<"">>}

StatsStartWeights == {2100, 2200}

StatsJoin ==
    \E year \in Years, userId \in UserIds, name \in NameInputs,
       startWeight \in StatsStartWeights :
        /\ AddParticipant(year, userId, name, startWeight)

StatsSubmit_A ==
    \E year \in Years, userId \in UserIds, weekNumber \in StatsWeeks,
       weight \in StatsWeights, notes \in StatsNotes :
        /\ SubmitWeighIn("A", year, userId, weekNumber, weight, notes, FALSE)

StatsSubmit_T ==
    \E year \in Years, userId \in UserIds, weekNumber \in StatsWeeks,
       weight \in StatsWeights, notes \in StatsNotes :
        /\ SubmitWeighIn("T", year, userId, weekNumber, weight, notes, FALSE)

StatsSubmit_L ==
    \E year \in Years, userId \in UserIds, weekNumber \in StatsWeeks,
       weight \in StatsWeights, notes \in StatsNotes :
        /\ SubmitWeighIn("L", year, userId, weekNumber, weight, notes, FALSE)

NextStats ==
    \/ StatsJoin
    \/ StatsSubmit_A
    \/ StatsSubmit_T
    \/ StatsSubmit_L

SpecStats == Init /\ [][NextStats]_vars

\* the participant has a start weight on record, and it is positive
HasStartWeight(year, userId) ==
    /\ participantRef(year, userId) \in DOMAIN db.participants
    /\ "startWeight" \in DOMAIN db.participants[participantRef(year, userId)]
    /\ db.participants[participantRef(year, userId)].startWeight > 0

RecordedStartWeight(year, userId) ==
    db.participants[participantRef(year, userId)].startWeight

\* the weight of the stored weigh-in with the highest week number
WeightOfHighestWeek(year, userId) ==
    LET refs == weighInsRef(db, year, userId)
        top == CHOOSE x \in refs :
                \A y \in refs : db.weighIns[y].weekNumber <= db.weighIns[x].weekNumber
    IN  db.weighIns[top].weight

\* C2: for a participant with a recorded start weight S > 0 and at least one
\* weigh-in, getUserStats (typed and untyped) returns totalWeightLoss = S - C
\* and totalWeightLossPercentage = (S - C) / S * 100, signed, where C is the
\* current weight.
C2_LossFromStartWeight ==
    \A year \in Years, userId \in UserIds :
        (HasStartWeight(year, userId) /\ weighInsRef(db, year, userId) # {}) =>
            LET S == Num(RecordedStartWeight(year, userId))
                C == Num(WeightOfHighestWeek(year, userId))
                loss == JsSub(S, C)
                pct == JsMul(JsDiv(loss, S), Num(100))
            IN  /\ getUserStats_T(db, year, userId).totalWeightLoss = loss
                /\ getUserStats_T(db, year, userId).totalWeightLossPercentage = pct
                /\ getUserStats_A(db, year, userId).totalWeightLoss = loss
                /\ getUserStats_A(db, year, userId).totalWeightLossPercentage = pct

\* C3: the current weight getUserStats (typed and untyped) returns is the weight
\* of the weigh-in with the highest week number, and the participant's start
\* weight when there are no weigh-ins.
C3_CurrentWeight ==
    \A year \in Years, userId \in UserIds :
        HasStartWeight(year, userId) =>
            LET current ==
                    IF weighInsRef(db, year, userId) = {}
                    THEN Num(RecordedStartWeight(year, userId))
                    ELSE Num(WeightOfHighestWeek(year, userId))
            IN  /\ getUserStats_T(db, year, userId).currentWeight = current
                /\ getUserStats_A(db, year, userId).currentWeight = current

\* C4: in the statistics getUserStats returns (typed and logging versions),
\* weeksParticipated is the number of stored weigh-in records and
\* averageWeeklyLoss is totalWeightLoss / weeksParticipated, and 0 when
\* weeksParticipated is 0.
C4_AverageWeeklyLoss ==
    \A year \in Years, userId \in UserIds :
        \A stats \in {getUserStats_T(db, year, userId), getUserStats_L(db, year, userId)} :
            stats # null =>
                /\ stats.weeksParticipated = Num(Cardinality(weighInsRef(db, year, userId)))
                /\ stats.averageWeeklyLoss =
                        IF stats.weeksParticipated = Num(0)
                        THEN Num(0)
                        ELSE JsDiv(stats.totalWeightLoss, stats.weeksParticipated)

\* two weigh-ins are stored and the typed average is 1.5 lbs / 2 weeks
C4_TwoWeeksAveraged ==
    \E year \in Years, userId \in UserIds :
        /\ getUserStats_T(db, year, userId) # null
        /\ getUserStats_T(db, year, userId).weeksParticipated = Num(2)
        /\ getUserStats_T(db, year, userId).averageWeeklyLoss = Frac(15, 2)
        /\ getUserStats_L(db, year, userId).weeksParticipated = Num(2)

\* the store after addParticipant(year, userId, name, 220.0) and submitWeighIn
\* for weeks 1, 2, 3 with 218.5, 216.0, 215.2, all through the typed version
EndToEndStore(year, userId) ==
    /\ participantRef(year, userId) \in DOMAIN db.participants
    /\ db.participants[participantRef(year, userId)] =
            [name |-> "Ann", startWeight |-> 2200, joinedAt |-> serverTimestamp, isActive |-> TRUE]
    /\ weighInsRef(db, year, userId) = {weighInRef(year, userId, w) : w \in {1, 2, 3}}
    /\ \A w \in {1, 2, 3} : "date" \in DOMAIN db.weighIns[weighInRef(year, userId, w)]
    /\ db.weighIns[weighInRef(year, userId, 1)].weight = 2185
    /\ db.weighIns[weighInRef(year, userId, 2)].weight = 2160
    /\ db.weighIns[weighInRef(year, userId, 3)].weight = 2152

\* C5: after addParticipant with start weight 220.0 and submitWeighIn for weeks
\* 1, 2, 3 with 218.5, 216.0, 215.2, the typed getUserStats returns
\* totalWeightLoss 4.8, totalWeightLossPercentage 4.8 / 220 * 100 (2.18 to two
\* places), weeksParticipated 3 and averageWeeklyLoss 1.6.
C5_EndToEnd ==
    \A year \in Years, userId \in UserIds :
        EndToEndStore(year, userId) =>
            LET stats == getUserStats_T(db, year, userId)
            IN  /\ stats # null
                /\ stats.totalWeightLoss = Num(48)
                /\ stats.totalWeightLossPercentage = JsMul(JsDiv(Num(48), Num(2200)), Num(100))
                /\ 218 * stats.totalWeightLossPercentage.den
                        <= 100 * stats.totalWeightLossPercentage.num
                /\ 100 * stats.totalWeightLossPercentage.num
                        < 219 * stats.totalWeightLossPercentage.den
                /\ stats.weeksParticipated = Num(3)
                /\ stats.averageWeeklyLoss = Num(16)

\* the end-to-end store has been built
C5_EndToEndReached ==
    \E year \in Years, userId \in UserIds : EndToEndStore(year, userId)

---------------------------------------------------------------------------
(* The competition specification: the service's competition operations,    *)
(* called in any order.                                                    *)

CompYears == {2025, 2026}

StartDateInputs == {0, 7}

StatusInputs == {"draft", "active", "archived"}

CreatedByInputs == {"admin"}

\* lists of weigh-in dates a caller may pass that are not the generated ones
OtherWeighInDates == {<<>>, <<100>>}

\* the settings a caller may pass to createCompetition
CreateSettingsInputs ==
    {[startDate |-> sd, status |-> st] : sd \in StartDateInputs, st \in StatusInputs}
    \cup {[startDate |-> sd, status |-> st, weighInDates |-> GeneratedWeighInDates(sd)] :
            sd \in StartDateInputs, st \in StatusInputs}
    \cup {[startDate |-> sd, status |-> "draft", weighInDates |-> dates] :
            sd \in StartDateInputs, dates \in OtherWeighInDates}

\* the settings a caller may pass to an update
UpdateSettingsInputs ==
    {[status |-> st] : st \in StatusInputs}
    \cup {[startDate |-> sd] : sd \in StartDateInputs}
    \cup {[startDate |-> sd, status |-> st] : sd \in StartDateInputs, st \in StatusInputs}

\* a call that touches the database only
DbCall(r) ==
    /\ db' = r.db
    /\ UNCHANGED <<sessionVars, historyVars, otherVars>>

CreateCompetition_A ==
    \E year \in CompYears, settings \in CreateSettingsInputs, createdBy \in CreatedByInputs :
        /\ DbCall(createCompetition_A(db, year, settings, createdBy))

CreateCompetition_T ==
    \E year \in CompYears, settings \in CreateSettingsInputs, createdBy \in CreatedByInputs :
        /\ DbCall(createCompetition_T(db, year, settings, createdBy))

UpdateCompetition_A ==
    \E year \in CompYears, settings \in UpdateSettingsInputs :
        /\ DbCall(updateCompetition_A(db, year, settings))

UpdateCompetitionSettings_T ==
    \E year \in CompYears, settings \in UpdateSettingsInputs :
        /\ DbCall(updateCompetitionSettings_T(db, year, settings))

ArchiveCompetition_A ==
    \E year \in CompYears :
        /\ DbCall(archiveCompetition_A(db, year))

ArchiveCompetition_T ==
    \E year \in CompYears :
        /\ DbCall(archiveCompetition_T(db, year))

NextComp ==
    \/ CreateCompetition_A
    \/ CreateCompetition_T
    \/ UpdateCompetition_A
    \/ UpdateCompetitionSettings_T
    \/ ArchiveCompetition_A
    \/ ArchiveCompetition_T

SpecComp == Init /\ [][NextComp]_vars

\* draft, then active, then archived
StatusRank(status) ==
    CASE status = "draft" -> 0
      [] status = "active" -> 1
      [] status = "archived" -> 2

\* C10: whatever createCompetition, updateCompetition, updateCompetitionSettings
\* or archiveCompetition call is made, the status of a competition that stays
\* in the store only moves forward in draft -> active -> archived: it never
\* leaves archived and never goes from active back to draft.
C10_StatusOnlyForward ==
    [][\A ref \in DOMAIN db.competitions \cap DOMAIN db'.competitions :
            StatusRank(db.competitions[ref].status)
                <= StatusRank(db'.competitions[ref].status)]_vars

\* C11: a competition is kept under its year and is never replaced: in every
\* step each stored competition stays in the store under the key of its year
\* field, and the fields that only a creation writes (year, creator, creation
\* time, end date) stay as they were, createCompetition for the same year
\* included.
C11_CompetitionNeverReplaced ==
    [][\A ref \in DOMAIN db.competitions :
            /\ ref \in DOMAIN db'.competitions
            /\ toString(db'.competitions[ref].year) = DocId(ref)
            /\ \A f \in {"year", "createdBy", "createdAt", "endDate"} :
                    db'.competitions[ref][f] = db.competitions[ref][f]]_vars

\* the competition ends 12 weeks after its start
EndsAfterTwelveWeeks(c) == c.endDate = c.startDate + 84

\* the competition has 12 weigh-in dates, a week apart from the start date on,
\* all of them from the start date up to, not including, the end date
TwelveWeeklyDates(c) ==
    /\ Len(c.weighInDates) = 12
    /\ \A i \in 0..11 :
            /\ c.weighInDates[i + 1] = c.startDate + 7 * i
            /\ c.startDate <= c.weighInDates[i + 1]
            /\ c.weighInDates[i + 1] < c.endDate

\* whether the settings carry a list of weigh-in dates that is not empty
GivesDates(settings) ==
    /\ "weighInDates" \in DOMAIN settings
    /\ Len(settings.weighInDates) > 0

\* C13 as stated: every competition that a createCompetition call stores ends
\* 84 days after its start date and has exactly 12 weigh-in dates, the i-th
\* (i = 0..11) being start date + 7*i days, so all in [start date, end date).
C13_TwelveWeeklyDates ==
    [][\A year \in CompYears, settings \in CreateSettingsInputs,
         createdBy \in CreatedByInputs, v \in {"A", "T"} :
            LET r == IF v = "A" THEN createCompetition_A(db, year, settings, createdBy)
                     ELSE createCompetition_T(db, year, settings, createdBy)
            IN  (~r.threw /\ db' = r.db)
                    => /\ EndsAfterTwelveWeeks(db'.competitions[competitionRef(year)])
                       /\ TwelveWeeklyDates(db'.competitions[competitionRef(year)])]_vars

\* C13, amended: every competition that a createCompetition call stores ends
\* 84 days after its start date; it has the 12 weekly dates when the caller
\* gave those dates or, in the untyped version, gave no dates or an empty
\* list; any other list the caller gave, and in the typed version also the
\* empty list, is stored as it was given.
C13_EndDateAndGivenDates ==
    [][\A year \in CompYears, settings \in CreateSettingsInputs,
         createdBy \in CreatedByInputs, v \in {"A", "T"} :
            LET r == IF v = "A" THEN createCompetition_A(db, year, settings, createdBy)
                     ELSE createCompetition_T(db, year, settings, createdBy)
                c == db'.competitions[competitionRef(year)]
            IN  (~r.threw /\ db' = r.db)
                    => /\ EndsAfterTwelveWeeks(c)
                       /\ (v = "A" /\ ~GivesDates(settings)) => TwelveWeeklyDates(c)
                       /\ (v = "T" \/ GivesDates(settings))
                            => c.weighInDates = settings.weighInDates
                       /\ ("weighInDates" \in DOMAIN settings
                            /\ settings.weighInDates = GeneratedWeighInDates(settings.startDate))
                            => TwelveWeeklyDates(c)]_vars

\* a competition created without dates is in the store with its 12 weekly
\* dates, beside one that was created with a list of its caller
C13_GeneratedAndGivenStored ==
    \E ref, other \in DOMAIN db.competitions :
        /\ EndsAfterTwelveWeeks(db.competitions[ref])
        /\ TwelveWeeklyDates(db.competitions[ref])
        /\ EndsAfterTwelveWeeks(db.competitions[other])
        /\ db.competitions[other].weighInDates \in OtherWeighInDates

---------------------------------------------------------------------------
(* The participant specification: the 2026 competition exists, and          *)
(* participants are added and updated and weigh-ins submitted, by the three *)
(* versions, in any order.                                                  *)

PartUserIds == {"u1", "u2"}

PartNames == {"Ann"}

PartStartWeights == {2100, 2200}

PartWeeks == {1, 2}

PartWeights == {2152}

PartNotes == {<<"">>}

\* the updates a caller may pass to updateParticipant
PartUpdates ==
    {[name |-> "Ann B."], [name |-> ""], [isActive |-> FALSE]}
    \cup {[startWeight |-> w] : w \in PartStartWeights}

InitPart ==
    /\ db = createCompetition_A(EmptyDb, 2026,
                [startDate |-> 0, status |-> "active"], "admin").db
    /\ accounts = {}
    /\ user = none
    /\ rules = "permissive"
    /\ PagesClosed
    /\ now = 0
    /\ lastWrite = EmptyCollection
    /\ rewritten = {}
    /\ InitOther

PartJoin ==
    \E year \in Years, userId \in PartUserIds, name \in PartNames,
       startWeight \in PartStartWeights :
        /\ AddParticipant(year, userId, name, startWeight)

UpdateParticipant ==
    \E year \in Years, userId \in PartUserIds, updates \in PartUpdates :
        /\ DbCall(updateParticipant(db, year, userId, updates))

PartSubmit ==
    \E v \in Versions, year \in Years, userId \in PartUserIds,
       weekNumber \in PartWeeks, weight \in PartWeights, notes \in PartNotes :
        /\ SubmitWeighIn(v, year, userId, weekNumber, weight, notes, FALSE)

NextPart ==
    \/ PartJoin
    \/ UpdateParticipant
    \/ PartSubmit

SpecPart == InitPart /\ [][NextPart]_vars

\* C12: a (year, user) has one participant record, and once the participant
\* has been created with a start weight, no addParticipant, updateParticipant
\* or submitWeighIn call changes the stored start weight.
C12_StartWeightFixed ==
    [][\A ref \in DOMAIN db.participants :
            "startWeight" \in DOMAIN db.participants[ref]
                => /\ ref \in DOMAIN db'.participants
                   /\ "startWeight" \in DOMAIN db'.participants[ref]
                   /\ db'.participants[ref].startWeight
                        = db.participants[ref].startWeight]_vars

---------------------------------------------------------------------------
(* The access specification: accounts are registered, one browser session  *)
(* signs in and out, and the signed-in user calls the service; every       *)
(* request is judged by the rules in force.  The project may start with    *)
(* the admin the README has the owner make by hand in the console.         *)

AccountInputs ==
    {[email |-> "ann@example.com", displayName |-> "Ann"],
     [email |-> "bob@example.com", displayName |-> "Bob"]}

AdminAccount == [email |-> "admin@example.com", displayName |-> "Admin"]

RoleInputs == {"admin", "regular"}

AccessUserIds == {"u1", "u2", "a1"}

AccessWeeks == {1}

AccessWeights == {2152}

AccessNotes == {<<"">>}

\* the store once the owner has registered and made themselves admin
AdminMade ==
    [EmptyDb EXCEPT !.users =
        setDoc(@, userRef(UidOf(AdminAccount.email)),
            [RegisteredUser(UidOf(AdminAccount.email), AdminAccount.email,
                            AdminAccount.displayName) EXCEPT !.role = "admin"])]

InitAccess ==
    /\ \/ db = EmptyDb /\ accounts = {}
       \/ db = AdminMade /\ accounts = {UidOf(AdminAccount.email)}
    /\ user = none
    /\ rules \in {"documented", "permissive"}
    /\ PagesClosed
    /\ now = 0
    /\ lastWrite = EmptyCollection
    /\ rewritten = {}
    /\ InitOther

\* AuthService.register: the account is created and signed in, then the user
\* document is written; an address already in use is refused
Register ==
    \E form \in AccountInputs :
        LET r == register(db, accounts, user, form, NoFailure)
        IN  /\ UidOf(form.email) \notin accounts
            /\ accounts' = r.accounts
            /\ user' = r.session
            /\ db' = r.db
            /\ ClosePages
            /\ UNCHANGED <<rules, now, historyVars, otherVars>>

\* AuthService.signIn: the account signs in and its last login is written
SignIn ==
    \E form \in AccountInputs \cup {AdminAccount} :
        LET r == signIn(db, accounts, user, form, NoFailure)
        IN  /\ UidOf(form.email) \in accounts
            /\ user' = r.session
            /\ db' = r.db
            /\ ClosePages
            /\ UNCHANGED <<accounts, rules, now, historyVars, otherVars>>

\* AuthService.signOut
SignOut ==
    /\ user # none
    /\ user' = none
    /\ ClosePages
    /\ UNCHANGED <<db, accounts, rules, now, historyVars, otherVars>>

\* the signed-in user calls AuthService.updateUserRole
UpdateUserRole ==
    \E uid \in AccessUserIds, role \in RoleInputs :
        /\ user # none
        /\ db' = IF Allowed(db, user, "write", "users", userRef(uid))
                 THEN updateUserRole(db, uid, role).db
                 ELSE db
        /\ UNCHANGED <<sessionVars, historyVars, otherVars>>

\* the signed-in user calls addParticipant
AccessJoin ==
    \E year \in Years, userId \in AccessUserIds, name \in NameInputs,
       startWeight \in StartWeightInputs :
        /\ user # none
        /\ db' = IF Allowed(db, user, "write", "participants", participantRef(year, userId))
                 THEN addParticipant(db, year, userId, name, startWeight).db
                 ELSE db
        /\ UNCHANGED <<sessionVars, historyVars, otherVars>>

\* the signed-in user calls the typed submitWeighIn
AccessSubmit ==
    \E year \in Years, userId \in AccessUserIds, weekNumber \in AccessWeeks,
       weight \in AccessWeights, notes \in AccessNotes :
        /\ user # none
        /\ db' = IF Allowed(db, user, "write", "weighIns",
                            weighInRef(year, userId, weekNumber))
                 THEN submitWeighIn_T(db, year, userId, weekNumber, weight, notes).db
                 ELSE db
        /\ UNCHANGED <<sessionVars, historyVars, otherVars>>

\* the dashboard of the signed-in user shows the LeaderboardChart of a year
LoadChart ==
    \E year \in Years :
        /\ user # none
        /\ chart' = loadChartData(db, user, year, chart)
        /\ UNCHANGED <<db, accounts, user, rules, now, weighInPage, adminUsers,
                       selectedCompetition, historyVars, otherVars>>

NextAccess ==
    \/ Register
    \/ SignIn
    \/ SignOut
    \/ UpdateUserRole
    \/ AccessJoin
    \/ AccessSubmit
    \/ LoadChart

SpecAccess == InitAccess /\ [][NextAccess]_vars

\* C7: while a regular user is signed in, what the leaderboard holds about a
\* participant other than that user is at most the participant's name and
\* weight-loss percentage per week: no absolute weight and no weight
\* difference of another participant is in the chart's state.
C7_OnlyNameAndPercentage ==
    (user # none /\ RoleOf(db, user) # "admin") =>
        \A i \in 1..Len(chart) :
            chart[i].userId # user =>
                \A k \in 1..Len(chart[i].data) :
                    DOMAIN chart[i].data[k] \subseteq {"week", "weightLossPercentage"}

\* the README's rules let the requester read (write) every document of a set
MayAll(auth, method, coll, refs) ==
    \A ref \in refs : RuleAllows(db, auth, method, coll, ref)

MayNone(auth, method, coll, refs) ==
    \A ref \in refs : ~RuleAllows(db, auth, method, coll, ref)

\* the participant and weigh-in paths of a set of users
ParticipantPaths(uids) == {participantRef(year, uid) : year \in Years, uid \in uids}

WeighInPaths(uids) ==
    {weighInRef(year, uid, w) : year \in Years, uid \in uids, w \in 1..CompetitionWeeks}

\* C8: under the documented rules a user whose role is not admin reads and
\* writes their own user, participant and weigh-in documents and nobody
\* else's; and for every signed-in requester, writing a competition document
\* and reading another user's user, participant or weigh-in document are
\* allowed exactly when the requester's role is admin.
C8_DocumentedRules ==
    \A auth \in accounts :
        LET others == AccessUserIds \ {auth}
            admin == RoleOf(db, auth) = "admin"
        IN  /\ ~admin =>
                /\ \A method \in {"read", "write"} :
                    /\ RuleAllows(db, auth, method, "users", userRef(auth))
                    /\ MayAll(auth, method, "participants", ParticipantPaths({auth}))
                    /\ MayAll(auth, method, "weighIns", WeighInPaths({auth}))
                    /\ MayNone(auth, method, "users", {userRef(o) : o \in others})
                    /\ MayNone(auth, method, "participants", ParticipantPaths(others))
                    /\ MayNone(auth, method, "weighIns", WeighInPaths(others))
            /\ \A year \in Years :
                    RuleAllows(db, auth, "write", "competitions", competitionRef(year)) <=> admin
            /\ \A o \in others :
                    RuleAllows(db, auth, "read", "users", userRef(o)) <=> admin
            /\ \A ref \in ParticipantPaths(others) :
                    RuleAllows(db, auth, "read", "participants", ref) <=> admin
            /\ \A ref \in WeighInPaths(others) :
                    RuleAllows(db, auth, "read", "weighIns", ref) <=> admin

\* C9: an account's role is 'regular' when it is registered, and no step made
\* while the signed-in user is not an admin gives anybody the role admin.
C9_RegularNeverMakesAdmin ==
    [][/\ \A uid \in accounts' \ accounts : RoleOf(db', uid) = "regular"
       /\ \A uid \in AccessUserIds :
            (RoleOf(db', uid) = "admin" /\ RoleOf(db, uid) # "admin")
                => (user # none /\ RoleOf(db, user) = "admin")]_vars

---------------------------------------------------------------------------
(* The page specification.  It starts once the owner is admin, Ann has     *)
(* registered and the admin's form has created the 2026 competition, active *)
(* from day 0.  One browser session signs in and out, opens the weigh-in   *)
(* page of either build and the admin page, and uses their forms while the *)
(* clock advances.                                                         *)

NowInputs == {0, 91}

FormWeights == {-10, 0, 2152}

FormNotes == {<<"">>}

AdminWeekInputs == {1, 13}

AdminWeightInputs == {0, 2152}

InitUI ==
    /\ db = createCompetition_A(
                [AdminMade EXCEPT !.users =
                    setDoc(@, userRef("u1"), RegisteredUser("u1", "ann@example.com", "Ann"))],
                2026,
                [startDate |-> 0, status |-> "active",
                 weighInDates |-> GeneratedWeighInDates(0)],
                "admin").db
    /\ accounts = {"a1", "u1"}
    /\ user = none
    /\ rules = "permissive"
    /\ PagesClosed
    /\ now = 0
    /\ lastWrite = EmptyCollection
    /\ rewritten = {}
    /\ InitOther

ClockAdvances ==
    \E today \in NowInputs :
        /\ today > now
        /\ now' = today
        /\ UNCHANGED <<db, accounts, user, rules, pageVars, historyVars, otherVars>>

\* the signed-in user opens the weigh-in page of the first build
OpenWeighInPage ==
    \E v \in Versions :
        /\ ProtectedRoute(db, user, FALSE)
        /\ weighInPage' = loadWeighInData(WeighInPageMounted(1), v, db, user, now)
        /\ UNCHANGED <<db, accounts, user, rules, now, chart, adminUsers,
                       selectedCompetition, historyVars, otherVars>>

\* the signed-in user opens the weigh-in page of the second build
OpenWeighInPage2 ==
    \E v \in Versions :
        /\ ProtectedRoute(db, user, FALSE)
        /\ weighInPage' = loadCompetitions(WeighInPageMounted(2), v, db, user, now)
        /\ UNCHANGED <<db, accounts, user, rules, now, chart, adminUsers,
                       selectedCompetition, historyVars, otherVars>>

\* the form of the first build is sent: it is there while no weigh-in of the
\* week is known, and onSubmit runs only if validateWeight accepts the weight
SubmitForm ==
    \E v \in Versions, weight \in FormWeights, notes \in FormNotes :
        /\ weighInPage # null
        /\ weighInPage.build = 1
        /\ ~weighInPage.loading
        /\ weighInPage.currentCompetition # null
        /\ ~weighInPage.hasSubmittedThisWeek
        /\ user # none
        /\ LET r == IF validateWeight(weight, weighInPage.lastWeighIn)
                    THEN onSubmit(weighInPage, v, db, user, now, weight, notes)
                    ELSE [db |-> db, page |-> weighInPage]
           IN  /\ db' = r.db
               /\ weighInPage' = r.page
        /\ UNCHANGED <<accounts, user, rules, now, chart, adminUsers,
                       selectedCompetition, historyVars, otherVars>>

\* the form of the second build is sent: it is there while no weigh-in of
\* the week is known
SubmitForm2 ==
    \E v \in Versions, weight \in FormWeights, notes \in FormNotes :
        /\ weighInPage # null
        /\ weighInPage.build = 2
        /\ ~weighInPage.loading
        /\ weighInPage.currentCompetition # null
        /\ ~weighInPage.hasSubmittedThisWeek
        /\ user # none
        /\ LET r == IF validateWeight2(weight)
                    THEN onSubmit2(weighInPage, v, db, user, weight, notes)
                    ELSE [db |-> db, page |-> weighInPage]
           IN  /\ db' = r.db
               /\ weighInPage' = r.page
        /\ UNCHANGED <<accounts, user, rules, now, chart, adminUsers,
                       selectedCompetition, historyVars, otherVars>>

\* the admin opens the admin page: loadAdminData, then loadUserStats
OpenAdminPage ==
    /\ ProtectedRoute(db, user, TRUE)
    /\ adminUsers' = loadAdminData(db, now)
    /\ selectedCompetition' = loadUserStats(selectedCompetition, db, adminUsers', now)
    /\ UNCHANGED <<db, accounts, user, rules, now, chart, weighInPage, historyVars, otherVars>>

\* the admin's handler of either UserManagement is called with a user, a week
\* and a weight
AdminUpdatesWeighIn ==
    \E v \in Versions, userId \in UserIds, weekNumber \in AdminWeekInputs,
       newWeight \in AdminWeightInputs :
        /\ ProtectedRoute(db, user, TRUE)
        /\ LET r == handleUpdateWeighIn(selectedCompetition, v, db, userId,
                                        weekNumber, newWeight)
           IN  /\ db' = r.db
               /\ selectedCompetition' =
                    IF r.threw THEN selectedCompetition
                    ELSE loadUserStats(selectedCompetition, r.db, adminUsers, now)
        /\ UNCHANGED <<accounts, user, rules, now, chart, weighInPage, adminUsers,
                       historyVars, otherVars>>

NextUI ==
    \/ SignIn
    \/ SignOut
    \/ ClockAdvances
    \/ OpenWeighInPage
    \/ OpenWeighInPage2
    \/ SubmitForm
    \/ SubmitForm2
    \/ OpenAdminPage
    \/ AdminUpdatesWeighIn

SpecUI == InitUI /\ [][NextUI]_vars

\* C6: a week number outside 1..12 or a weight that is not positive never
\* reaches the store, whether it comes through a weigh-in form or through the
\* admin's update handler: every stored weigh-in has a week in 1..12 and a
\* positive weight.
C6_StoredWeighInsValid ==
    \A ref \in DOMAIN db.weighIns :
        /\ db.weighIns[ref].weekNumber \in 1..12
        /\ db.weighIns[ref].weight > 0

---------------------------------------------------------------------------
(* The archive specification: the page specification, with the admin's     *)
(* Archive button.                                                         *)

\* handleArchiveCompetition of CompetitionManagement, behind the button shown
\* for an active competition; onCompetitionUpdate then reloads the admin page
ArchiveFromAdminPage ==
    \E v \in {"A", "T"}, year \in Years :
        /\ ProtectedRoute(db, user, TRUE)
        /\ competitionRef(year) \in DOMAIN db.competitions
        /\ db.competitions[competitionRef(year)].status = "active"
        /\ LET r == IF v = "A" THEN archiveCompetition_A(db, year)
                    ELSE archiveCompetition_T(db, year)
           IN  /\ db' = r.db
               /\ adminUsers' = IF r.threw THEN adminUsers ELSE loadAdminData(r.db, now)
               /\ selectedCompetition' =
                    IF r.threw THEN selectedCompetition
                    ELSE loadUserStats(selectedCompetition, r.db, adminUsers', now)
        /\ UNCHANGED <<accounts, user, rules, now, chart, weighInPage, historyVars, otherVars>>

NextArchive ==
    \/ SignIn
    \/ SignOut
    \/ OpenWeighInPage
    \/ OpenWeighInPage2
    \/ SubmitForm
    \/ SubmitForm2
    \/ OpenAdminPage
    \/ AdminUpdatesWeighIn
    \/ ArchiveFromAdminPage

SpecArchive == InitUI /\ [][NextArchive]_vars

\* C14: an archived competition is read-only: in a step that starts with the
\* competition of a year archived, no weigh-in under that year is created,
\* overwritten or removed, whether the weigh-in page or an admin handler
\* submits.
C14_ArchivedReadOnly ==
    [][\A year \in Years :
            (/\ competitionRef(year) \in DOMAIN db.competitions
             /\ db.competitions[competitionRef(year)].status = "archived")
                => \A ref \in DOMAIN db.weighIns \cup DOMAIN db'.weighIns :
                        ref[1] = toString(year)
                            => /\ ref \in DOMAIN db.weighIns
                               /\ ref \in DOMAIN db'.weighIns
                               /\ db'.weighIns[ref] = db.weighIns[ref]]_vars

---------------------------------------------------------------------------
(* The leaderboard specification: six participants have joined the 2026    *)
(* competition and submit weigh-ins in any order.                          *)

BoardUserIds == {"u1", "u2", "u3", "u4", "u5", "u6"}

\* the weigh-ins a participant may submit, as <<week, weight>>
BoardWeighIns == {<<1, 2185>>, <<2, 2152>>, <<2, 2160>>}

\* addParticipant for each of the users
RECURSIVE JoinAll(_, _)
JoinAll(d, uids) ==
    IF uids = {} THEN d
    ELSE LET uid == CHOOSE u \in uids : TRUE
         IN  JoinAll(addParticipant(d, 2026, uid, "Ann", 2200).db, uids \ {uid})

InitBoard ==
    /\ db = JoinAll(createCompetition_A(EmptyDb, 2026,
                        [startDate |-> 0, status |-> "active"], "admin").db,
                    BoardUserIds)
    /\ accounts = {}
    /\ user = none
    /\ rules = "permissive"
    /\ PagesClosed
    /\ now = 0
    /\ lastWrite = EmptyCollection
    /\ rewritten = {}
    /\ InitOther

BoardSubmit ==
    \E userId \in BoardUserIds, weighIn \in BoardWeighIns :
        /\ SubmitWeighIn("A", 2026, userId, weighIn[1], weighIn[2], <<"">>, FALSE)

NextBoard == BoardSubmit

SpecBoard == InitBoard /\ [][NextBoard]_vars

\* a >= b, of two numbers
JsAtLeast(a, b) == IsFinite(a) /\ IsFinite(b) /\ a.num * b.den >= b.num * a.den

C16_SubmitChangesOneRecord ==
    [][\A v \in Versions, year \in Years, userId \in PartUserIds,
         weekNumber \in PartWeeks, weight \in PartWeights, notes \in PartNotes :
            LET r == submitWeighIn(v, db, year, userId, weekNumber, weight, notes)
            IN  (~r.threw /\ db' = r.db)
                    => /\ \A ref \in DOMAIN db.weighIns \cup DOMAIN db'.weighIns :
                            ref # weighInRef(year, userId, weekNumber)
                                => /\ ref \in DOMAIN db.weighIns
                                   /\ ref \in DOMAIN db'.weighIns
                                   /\ db'.weighIns[ref] = db.weighIns[ref]
                       /\ db'.participants = db.participants
                       /\ db'.competitions = db.competitions
                       /\ db'.users = db.users]_vars

---------------------------------------------------------------------------
(* The rejection specification: the weigh-in page of the first build is    *)
(* used while the store may reject a write of a call.                      *)

\* which write of a call the store rejects: none, the first or the second
RejectedInputs == {0, 1, 2}

\* the writes a submitWeighIn call of version v makes
WritesOf(v) == IF v = "L" THEN {1, 2} ELSE {1}

\* the form of the first build is there and its user is signed in
FormShown ==
    /\ weighInPage # null
    /\ weighInPage.build = 1
    /\ ~weighInPage.loading
    /\ weighInPage.currentCompetition # null
    /\ ~weighInPage.hasSubmittedThisWeek
    /\ user # none

\* the form is sent and the store rejects one of the writes, or none
SubmitFormStore ==
    \E v \in Versions, weight \in FormWeights, notes \in FormNotes,
       rejected \in RejectedInputs :
        /\ FormShown
        /\ rejected \in WritesOf(v) \cup {0}
        /\ validateWeight(weight, weighInPage.lastWeighIn)
        /\ LET r == onSubmitStore(weighInPage, v, db, user, now, weight, notes, rejected)
           IN  /\ db' = r.db
               /\ weighInPage' = r.page
        /\ UNCHANGED <<accounts, user, rules, now, chart, adminUsers,
                       selectedCompetition, historyVars, otherVars>>

NextReject ==
    \/ SignIn
    \/ SignOut
    \/ ClockAdvances
    \/ OpenWeighInPage
    \/ SubmitFormStore

SpecReject == InitUI /\ [][NextReject]_vars

\* C17: when the store rejects a write of a submitWeighIn call made by the
\* weigh-in form, the call rejects, no write of it was attempted twice, the
\* store is as it was before the call, and the page shows the failure and does
\* not mark the week as submitted.
C17_RejectedWriteLeavesStore ==
    [][\A v \in Versions, weight \in FormWeights, notes \in FormNotes,
         rejected \in RejectedInputs \ {0} :
            (/\ FormShown
             /\ rejected \in WritesOf(v)
             /\ validateWeight(weight, weighInPage.lastWeighIn))
                => LET call == submitWeighInStore(v, db, weighInPage.currentCompetition.year,
                                       user, weighInPage.currentWeek, weight, notes, rejected)
                       o == onSubmitStore(weighInPage, v, db, user, now, weight, notes,
                                          rejected)
                   IN  /\ call.threw
                       /\ call.attempts = rejected
                       /\ call.db = db
                       /\ (db' = o.db /\ weighInPage' = o.page)
                            => /\ weighInPage'.toast = "Failed to submit weigh-in"
                               /\ ~weighInPage'.hasSubmittedThisWeek]_vars

---------------------------------------------------------------------------
(* The sign-in specification: register and signIn are called with any      *)
(* form, and the provider or the store may fail any step of a call.        *)

AuthForms == AccountInputs \cup {AdminAccount}

\* the codes getErrorMessage has a message of its own for
MappedCodes ==
    {"auth/user-not-found", "auth/wrong-password", "auth/email-already-in-use",
     "auth/weak-password", "auth/invalid-email", "auth/too-many-requests"}

\* the codes of the errors the provider and the store throw; absent: an error
\* without a code
ErrorCodes == MappedCodes \cup {"auth/network-request-failed", "permission-denied", absent}

\* the steps of a call that may fail: signIn has four, register three
SignInSteps == 1..4

RegisterSteps == 1..3

FailInputs(steps) ==
    {NoFailure} \cup {[step |-> s, code |-> c] : s \in steps, c \in ErrorCodes}

AuthRegister ==
    \E form \in AuthForms, fail \in FailInputs(RegisterSteps) :
        LET r == register(db, accounts, user, form, fail)
        IN  /\ accounts' = r.accounts
            /\ user' = r.session
            /\ db' = r.db
            /\ ClosePages
            /\ UNCHANGED <<rules, now, historyVars, otherVars>>

AuthSignIn ==
    \E form \in AuthForms, fail \in FailInputs(SignInSteps) :
        LET r == signIn(db, accounts, user, form, fail)
        IN  /\ accounts' = r.accounts
            /\ user' = r.session
            /\ db' = r.db
            /\ ClosePages
            /\ UNCHANGED <<rules, now, historyVars, otherVars>>

NextAuth ==
    \/ AuthRegister
    \/ AuthSignIn
    \/ SignOut
    \/ UpdateUserRole

SpecAuth == InitAccess /\ [][NextAuth]_vars

GenericMessage == "An error occurred. Please try again"

\* a step of signIn(form) fails: one the provider or the store is made to
\* fail, no account, or a write or read the rules refuse (updateLastLogin
\* leaves a user document, so getUserData finds one)
SignInStepFails(form, fail) ==
    LET uid == UidOf(form.email)
    IN  \/ fail.step \in SignInSteps
        \/ uid \notin accounts
        \/ ~Allowed(db, uid, "write", "users", userRef(uid))
        \/ ~Allowed(db, uid, "read", "users", userRef(uid))

\* a step of register(form) fails
RegisterStepFails(form, fail) ==
    LET uid == UidOf(form.email)
    IN  \/ fail.step \in RegisterSteps
        \/ uid \in accounts
        \/ ~Allowed(db, uid, "write", "users", userRef(uid))

\* a call that rejects gives no user, and its message is the one of the
\* code of the error that was caught
RejectsWithMessage(r) ==
    /\ r.threw
    /\ r.value = null
    /\ r.message = getErrorMessage(r.code)

\* C18: signIn and register give no user when a step fails; they reject with
\* an Error whose message is determined by the code of the failure: each of
\* the six known codes has a message of its own, every other code and a
\* missing code have the generic message.
C18_FailuresRethrownByCode ==
    /\ \A c1 \in MappedCodes, c2 \in MappedCodes :
            c1 # c2 => getErrorMessage(c1) # getErrorMessage(c2)
    /\ \A c \in MappedCodes : getErrorMessage(c) # GenericMessage
    /\ \A c \in ErrorCodes \ MappedCodes : getErrorMessage(c) = GenericMessage
    /\ \A form \in AuthForms, fail \in FailInputs(SignInSteps) :
            LET r == signIn(db, accounts, user, form, fail)
            IN  /\ SignInStepFails(form, fail) <=> r.threw
                /\ r.threw => RejectsWithMessage(r)
                /\ fail.step = 1 => r.code = fail.code
                /\ (fail.step = 0 /\ UidOf(form.email) \notin accounts)
                        => r.code = "auth/user-not-found"
    /\ \A form \in AuthForms, fail \in FailInputs(RegisterSteps) :
            LET r == register(db, accounts, user, form, fail)
            IN  /\ RegisterStepFails(form, fail) <=> r.threw
                /\ r.threw => RejectsWithMessage(r)
                /\ fail.step = 1 => r.code = fail.code
                /\ (fail.step = 0 /\ UidOf(form.email) \in accounts)
                        => r.code = "auth/email-already-in-use"

\* a register that failed after its account was created has acted: the
\* account is there and signed in, without a user document
C18_RegisterFailedAfterAccount ==
    /\ user # none
    /\ user \in accounts
    /\ userRef(user) \notin DOMAIN db.users

\* C20: a signIn that succeeds gives the user record of the identity, with
\* the uid, e-mail address and display name written at registration and a
\* role; with no user record for the identity signIn fails.
C20_SignInGivesRegisteredUser ==
    \A form \in AuthForms, fail \in FailInputs(SignInSteps) :
        LET uid == UidOf(form.email)
            r == signIn(db, accounts, user, form, fail)
        IN  /\ ~r.threw
                => /\ r.value.uid = uid
                   /\ r.value.email = form.email
                   /\ r.value.displayName = form.displayName
                   /\ r.value.role \in RoleInputs
            /\ userRef(uid) \notin DOMAIN db.users => r.threw

---------------------------------------------------------------------------
(* Properties of the statistics when the store fails a read.               *)

\* the reads of a getAllUserStats call, at most: the listing and two per
\* participant
MaxReads == 5

\* the versions of getAllUserStats
StatsVersions == {"A", "T"}

NoReadTwice(reads) ==
    \A i \in 1..Len(reads), j \in 1..Len(reads) : i # j => reads[i] # reads[j]

\* C19: when the store fails a read of a statistics call, getAllUserStats
\* resolves to the empty list and getUserStats to the all-zero record of the
\* user; no read is made twice and neither call rejects.
C19_ReadFailureCaught ==
    \A year \in Years, failedRead \in 1..MaxReads :
        /\ \A v \in StatsVersions :
                LET r == getAllUserStatsStore(v, db, year, failedRead)
                IN  failedRead <= Len(r.reads)
                        => /\ ~r.threw
                           /\ r.value = <<>>
                           /\ NoReadTwice(r.reads)
        /\ \A userId \in PartUserIds :
                LET r == getUserStatsStore_A(db, year, userId, failedRead)
                IN  failedRead <= Len(r.reads)
                        => /\ ~r.threw
                           /\ r.value.userId = userId
                           /\ r.value.totalWeighIns = Num(0)
                           /\ r.value.currentWeight = Num(0)
                           /\ r.value.totalWeightLoss = Num(0)
                           /\ r.value.totalWeightLossPercentage = Num(0)
                           /\ r.value.weeksParticipated = Num(0)
                           /\ r.value.weighIns = <<>>
                           /\ NoReadTwice(r.reads)

---------------------------------------------------------------------------
(* TestDataService.  Three versions of the class are in the repository:    *)
(* testDataService.ts has generateTestData, generateTestDataForAllUsers    *)
(* and clearTestData; the version "5" (part_005) adds a generateTestUsers  *)
(* that writes user documents and a clearTestUsers that goes through the   *)
(* users; the version "6" (part_006) has a generateTestUsers that writes   *)
(* participant documents and a clearTestUsers that goes through the        *)
(* participants of every competition.  clearTestData is the same in all.   *)

\* the entries of TEST_USERS the model keeps (the source has 10)
TestUserCount == 2

\* the weeks generateTestData writes (the source writes 12)
TestWeeks == 2

TEST_USERS ==
    <<[name |-> "Alex Johnson", startWeight |-> 2200],
      [name |-> "Sarah Williams", startWeight |-> 1850],
      [name |-> "Mike Chen", startWeight |-> 2450]>>

\* `test-user-${i + 1}`
TestUserId(i) ==
    CASE i = 1 -> "test-user-1"
      [] i = 2 -> "test-user-2"
      [] i = 3 -> "test-user-3"

\* `test${i + 1}@example.com`
TestEmail(i) ==
    CASE i = 1 -> "test1@example.com"
      [] i = 2 -> "test2@example.com"
      [] i = 3 -> "test3@example.com"

\* `Test data - Week ${week}`
TestNotes(week) ==
    CASE week = 1 -> <<"Test data - Week 1">>
      [] week = 2 -> <<"Test data - Week 2">>
      [] week = 3 -> <<"Test data - Week 3">>

\* what a week changes the weight by: -weeklyLoss + randomVariation, drawn
\* with Math.random from -2.25 .. -0.25 lbs
WeeklyChanges == {-20, -5}

\* startWeight * 0.8, rounded to a tenth
LeastWeight(baseWeight) == (baseWeight * 8 + 5) \div 10

\* generateTestData: the weeks from week on, one submitWeighIn after the
\* other; a submitWeighIn that rejects ends the call
RECURSIVE generateTestDataFrom(_, _, _, _, _, _, _, _)
generateTestDataFrom(v, d, year, userId, baseWeight, currentWeight, changes, week) ==
    IF week > TestWeeks THEN Done(d)
    ELSE LET weight == IF currentWeight + changes[week] > LeastWeight(baseWeight)
                       THEN currentWeight + changes[week]
                       ELSE LeastWeight(baseWeight)
             r == submitWeighIn(v, d, year, userId, week, weight, TestNotes(week))
         IN  IF r.threw THEN Threw(r.db)
             ELSE generateTestDataFrom(v, r.db, year, userId, baseWeight, weight,
                                       changes, week + 1)

generateTestData(v, d, year, userId, baseWeight, changes) ==
    generateTestDataFrom(v, d, year, userId, baseWeight, baseWeight, changes, 1)

\* generateTestUsers of version 5 from entry i on: the user document, then
\* the weigh-ins; an error is logged and the next entry is taken
RECURSIVE generateTestUsers_5(_, _, _, _, _)
generateTestUsers_5(v, d, year, changes, i) ==
    IF i > TestUserCount THEN Done(d)
    ELSE LET userId == TestUserId(i)
             d1 == [d EXCEPT !.users =
                        setDoc(@, userRef(userId),
                               [uid |-> userId, email |-> TestEmail(i),
                                displayName |-> TEST_USERS[i].name, role |-> "regular",
                                createdAt |-> serverTimestamp, isTestUser |-> TRUE])]
             r == generateTestData(v, d1, year, userId, TEST_USERS[i].startWeight, changes)
         IN  generateTestUsers_5(v, r.db, year, changes, i + 1)

\* generateTestUsers of version 6: the participant document, then the
\* weigh-ins; no user document
RECURSIVE generateTestUsers_6(_, _, _, _, _)
generateTestUsers_6(v, d, year, changes, i) ==
    IF i > TestUserCount THEN Done(d)
    ELSE LET userId == TestUserId(i)
             d1 == [d EXCEPT !.participants =
                        setDoc(@, participantRef(year, userId),
                               [userId |-> userId, name |-> TEST_USERS[i].name,
                                email |-> TestEmail(i), role |-> "regular",
                                joinedAt |-> serverTimestamp, isTestUser |-> TRUE])]
             r == generateTestData(v, d1, year, userId, TEST_USERS[i].startWeight, changes)
         IN  generateTestUsers_6(v, r.db, year, changes, i + 1)

generateTestUsers(g, v, d, year, changes) ==
    IF g = "5" THEN generateTestUsers_5(v, d, year, changes, 1)
    ELSE generateTestUsers_6(v, d, year, changes, 1)

\* generateTestDataForAllUsers: generateTestData for every user document,
\* with a start weight drawn with Math.random
RECURSIVE generateTestDataForUsers(_, _, _, _, _, _)
generateTestDataForUsers(v, d, year, userIds, baseWeight, changes) ==
    IF userIds = {} THEN Done(d)
    ELSE LET userId == CHOOSE u \in userIds : TRUE
             r == generateTestData(v, d, year, userId, baseWeight, changes)
         IN  generateTestDataForUsers(v, r.db, year, userIds \ {userId}, baseWeight, changes)

generateTestDataForAllUsers(v, d, year, baseWeight, changes) ==
    generateTestDataForUsers(v, d, year, {ref[1] : ref \in DOMAIN d.users}, baseWeight,
                             changes)

\* the store without the documents at the paths of users, participants and
\* weigh-ins given
Without(d, userRefs, participantRefs, weighInRefs) ==
    [d EXCEPT !.users = [p \in DOMAIN @ \ userRefs |-> @[p]],
              !.participants = [p \in DOMAIN @ \ participantRefs |-> @[p]],
              !.weighIns = [p \in DOMAIN @ \ weighInRefs |-> @[p]]]

\* clearTestData: for every user document, the weigh-ins of the year and the
\* participant document of that user id are deleted
clearTestData(d, year) ==
    LET userIds == {ref[1] : ref \in DOMAIN d.users}
    IN  Done(Without(d, {},
                     {participantRef(year, userId) : userId \in userIds},
                     UNION {weighInsRef(d, year, userId) : userId \in userIds}))

\* the user ids of the user documents with isTestUser
FlaggedUsers(d) ==
    {ref[1] : ref \in {p \in DOMAIN d.users :
                        "isTestUser" \in DOMAIN d.users[p] /\ d.users[p].isTestUser}}

\* the paths of the participant documents with isTestUser, in the
\* competitions that have a document
FlaggedParticipants(d) ==
    {p \in DOMAIN d.participants :
        /\ <<p[1]>> \in DOMAIN d.competitions
        /\ "isTestUser" \in DOMAIN d.participants[p]
        /\ d.participants[p].isTestUser}

\* for comparison: a clearTestUsers that does not look at isTestUser
clearTestUsers_5_all(d) ==
    LET userIds == {ref[1] : ref \in DOMAIN d.users}
    IN  Done(Without(d,
                     {userRef(userId) : userId \in userIds},
                     {p \in DOMAIN d.participants :
                        <<p[1]>> \in DOMAIN d.competitions /\ p[2] \in userIds},
                     {p \in DOMAIN d.weighIns :
                        <<p[1]>> \in DOMAIN d.competitions /\ p[2] \in userIds}))

\* clearTestUsers of version 5: for every user document with isTestUser, the
\* document and, in every competition, the user's weigh-ins and participant
\* document are deleted
clearTestUsers_5(d) ==
    LET userIds == FlaggedUsers(d)
    IN  Done(Without(d,
                     {userRef(userId) : userId \in userIds},
                     {p \in DOMAIN d.participants :
                        <<p[1]>> \in DOMAIN d.competitions /\ p[2] \in userIds},
                     {p \in DOMAIN d.weighIns :
                        <<p[1]>> \in DOMAIN d.competitions /\ p[2] \in userIds}))

\* clearTestUsers of version 6: in every competition, for every participant
\* document with isTestUser, the weigh-ins under it and the document are
\* deleted
clearTestUsers_6(d) ==
    LET flagged == FlaggedParticipants(d)
    IN  Done(Without(d, {}, flagged,
                     {p \in DOMAIN d.weighIns : <<p[1], p[2]>> \in flagged}))

clearTestUsers(c, d) ==
    IF c = "5" THEN clearTestUsers_5(d) ELSE clearTestUsers_6(d)

\* the documents of d that are not in e
DeletedCount(d, e) ==
    Cardinality(DOMAIN d.users \ DOMAIN e.users)
    + Cardinality(DOMAIN d.participants \ DOMAIN e.participants)
    + Cardinality(DOMAIN d.weighIns \ DOMAIN e.weighIns)

---------------------------------------------------------------------------
(* The test data specification: the admin uses the buttons of the          *)
(* TestDataGenerator while a registered user takes part.                   *)

TestDataVersions == {"5", "6"}

RealUserIds == {"u1"}

RealWeeks == {1}

RealWeights == {2152}

\* the draws of Math.random of a call: a change for every week; the draws
\* taken are those with the same change in every week
ChangeInputs == {[week \in 1..TestWeeks |-> change] : change \in WeeklyChanges}

\* 200 + Math.random() * 50
BaseWeightInputs == {2250}

InitTest ==
    /\ db = createCompetition_A(
                [EmptyDb EXCEPT !.users =
                    setDoc(@, userRef("u1"), RegisteredUser("u1", "ann@example.com", "Ann"))],
                2026,
                [startDate |-> 0, status |-> "active",
                 weighInDates |-> GeneratedWeighInDates(0)],
                "admin").db
    /\ accounts = {"u1"}
    /\ user = none
    /\ rules = "permissive"
    /\ PagesClosed
    /\ now = 0
    /\ lastWrite = EmptyCollection
    /\ rewritten = {}
    /\ InitOther

\* the year the handlers of TestDataGenerator take: the active competition,
\* or else the first of the list
TestDataYear(year) ==
    LET competitions == getCompetitions(db)
        active == FindActive(competitions, now)
    IN  /\ Len(competitions) > 0
        /\ year = IF active # null THEN active.year ELSE competitions[1].year

TestDataCall(name, year, r) ==
    /\ db' = r.db
    /\ testCall' = [name |-> name, year |-> year, deleted |-> DeletedCount(db, r.db)]
    /\ UNCHANGED <<sessionVars, lastWrite, rewritten, progressChart, listenerVars, secondTab, routeElement>>

\* a registered user submits a weigh-in
RealSubmit ==
    \E v \in Versions, year \in Years, userId \in RealUserIds, weekNumber \in RealWeeks,
       weight \in RealWeights :
        /\ db' = submitWeighIn(v, db, year, userId, weekNumber, weight, <<"">>).db
        /\ testCall' = NoTestCall
        /\ UNCHANGED <<sessionVars, lastWrite, rewritten, progressChart, listenerVars, secondTab, routeElement>>

\* handleGenerateTestUsers
GenerateTestUsers ==
    \E g \in TestDataVersions, v \in Versions, year \in Years, changes \in ChangeInputs :
        /\ TestDataYear(year)
        /\ TestDataCall("generateTestUsers", year, generateTestUsers(g, v, db, year, changes))

\* handleGenerateTestData
GenerateTestDataForAllUsers ==
    \E v \in Versions, year \in Years, baseWeight \in BaseWeightInputs,
       changes \in ChangeInputs :
        /\ TestDataYear(year)
        /\ TestDataCall("generateTestDataForAllUsers", year,
                        generateTestDataForAllUsers(v, db, year, baseWeight, changes))

\* handleClearTestData
ClearTestData ==
    \E year \in Years :
        /\ TestDataYear(year)
        /\ TestDataCall("clearTestData", year, clearTestData(db, year))

\* handleClearTestUsers
ClearTestUsers ==
    \E c \in TestDataVersions :
        LET r == clearTestUsers(c, db)
        IN  /\ db' = r.db
            /\ testCall' = [name |-> "clearTestUsers", year |-> NoYear,
                            deleted |-> DeletedCount(db, r.db)]
            /\ UNCHANGED <<sessionVars, lastWrite, rewritten, progressChart, listenerVars, secondTab, routeElement>>

NextTest ==
    \/ RealSubmit
    \/ GenerateTestUsers
    \/ GenerateTestDataForAllUsers
    \/ ClearTestData
    \/ ClearTestUsers

SpecTest == InitTest /\ [][NextTest]_vars

\* C21: after clearTestData(year) no weigh-in is left under the year, for
\* any participant, with or without a user document.
C21_NoWeighInLeft ==
    testCall.name = "clearTestData"
        => \A ref \in DOMAIN db.weighIns : ref[1] # toString(testCall.year)

\* a user id that is flagged isTestUser, as a user or as a participant
IsTestUser(d, userId) ==
    \/ userId \in FlaggedUsers(d)
    \/ \E p \in FlaggedParticipants(d) : p[2] = userId

\* the documents of a collection that belong to users that are not flagged
\* in d; at: the place of the user id in the path
OfOthers(d, coll, at) ==
    [p \in {q \in DOMAIN coll : ~IsTestUser(d, q[at])} |-> coll[p]]

\* C22: clearTestUsers deletes only documents of users or participants
\* flagged isTestUser, writes none, and leaves every user document,
\* participant document and weigh-in of the other users as it was.
C22_OnlyTestUsersRemoved ==
    [][testCall'.name = "clearTestUsers"
        => /\ \A p \in DOMAIN db.users \ DOMAIN db'.users : IsTestUser(db, p[1])
           /\ \A p \in DOMAIN db.participants \ DOMAIN db'.participants : IsTestUser(db, p[2])
           /\ \A p \in DOMAIN db.weighIns \ DOMAIN db'.weighIns : IsTestUser(db, p[2])
           /\ OfOthers(db, db'.users, 1) = OfOthers(db, db.users, 1)
           /\ OfOthers(db, db'.participants, 2) = OfOthers(db, db.participants, 2)
           /\ OfOthers(db, db'.weighIns, 2) = OfOthers(db, db.weighIns, 2)
           /\ db'.competitions = db.competitions]_vars

\* a clearTestUsers has deleted documents and the registered user's
\* weigh-in, participant document and user document are there
C22_TestUsersGoneRealKept ==
    /\ testCall.name = "clearTestUsers"
    /\ testCall.deleted > 0
    /\ weighInRef(2026, "u1", 1) \in DOMAIN db.weighIns
    /\ participantRef(2026, "u1") \in DOMAIN db.participants
    /\ userRef("u1") \in DOMAIN db.users

---------------------------------------------------------------------------
(* The week specification: the clock goes on day by day, from before the   *)
(* start of the competition to after its end, and the weigh-in page is     *)
(* opened along the way.                                                   *)

\* the start date of the competition of this specification: a week after
\* the first day of the clock
WeekStartDate == DaysPerWeek

\* the last day the clock reaches
MaxDay == 100

\* the start dates getCurrentWeek is called with
WeekStartDates == {0, WeekStartDate, 30}

InitWeek ==
    /\ db = createCompetition_A(
                [AdminMade EXCEPT !.users =
                    setDoc(@, userRef("u1"), RegisteredUser("u1", "ann@example.com", "Ann"))],
                2026,
                [startDate |-> WeekStartDate, status |-> "active",
                 weighInDates |-> GeneratedWeighInDates(WeekStartDate)],
                "admin").db
    /\ accounts = {"a1", "u1"}
    /\ user = none
    /\ rules = "permissive"
    /\ PagesClosed
    /\ now = 0
    /\ lastWrite = EmptyCollection
    /\ rewritten = {}
    /\ InitOther

\* a day passes
Tick ==
    /\ now < MaxDay
    /\ now' = now + 1
    /\ UNCHANGED <<db, accounts, user, rules, pageVars, historyVars, otherVars>>

NextWeek ==
    \/ Tick
    \/ SignIn
    \/ OpenWeighInPage

SpecWeek == InitWeek /\ [][NextWeek]_vars

\* C23: getCurrentWeek gives a week in 1..12: week 1 before the start date
\* and in the first 7 days, the week the day lies in while that is one of
\* the weeks 1 to 12, and 12 from then on; it never decreases as time goes
\* on with the start date fixed.
C23_CurrentWeekInRange ==
    /\ [](\A startDate \in WeekStartDates :
            LET week == getCurrentWeek(startDate, now)
            IN  /\ week \in 1..CompetitionWeeks
                /\ now < startDate + DaysPerWeek => week = 1
                /\ now >= startDate + DaysPerWeek * CompetitionWeeks
                        => week = CompetitionWeeks
                /\ (now >= startDate /\ now < startDate + DaysPerWeek * CompetitionWeeks)
                        => /\ startDate + DaysPerWeek * (week - 1) <= now
                           /\ now < startDate + DaysPerWeek * week)
    /\ [][\A startDate \in WeekStartDates :
            getCurrentWeek(startDate, now') >= getCurrentWeek(startDate, now)]_vars

\* the weigh-in page shows week 12 on the day the competition ends, 12 weeks
\* after its start
C23_PageShowsLastWeek ==
    /\ weighInPage # null
    /\ weighInPage.currentCompetition # null
    /\ now = WeekStartDate + DaysPerWeek * CompetitionWeeks
    /\ weighInPage.currentWeek = CompetitionWeeks

---------------------------------------------------------------------------
(* The chart specification: participants join with a start weight below or *)
(* above the weight they submit, and a signed-in user's dashboard loads    *)
(* the leaderboard chart.                                                  *)

ChartWeeks == {1}

InitChart ==
    /\ db = createCompetition_A(EmptyDb, 2026,
                [startDate |-> 0, status |-> "active"], "admin").db
    /\ accounts = {"u1"}
    /\ user = "u1"
    /\ rules = "permissive"
    /\ PagesClosed
    /\ now = 0
    /\ lastWrite = EmptyCollection
    /\ rewritten = {}
    /\ InitOther

ChartSubmit ==
    \E v \in Versions, year \in Years, userId \in PartUserIds,
       weekNumber \in ChartWeeks, weight \in PartWeights, notes \in PartNotes :
        /\ SubmitWeighIn(v, year, userId, weekNumber, weight, notes, FALSE)

NextChart ==
    \/ PartJoin
    \/ ChartSubmit
    \/ LoadChart

SpecChart == InitChart /\ [][NextChart]_vars

\* the percentage of start weight S lost at weight W, not below zero; S and
\* W are tenths of a pound, S > 0
ClampedLossPercentage(S, W) ==
    IF W >= S THEN Num(0) ELSE Frac((S - W) * 100, S)

\* C24: every loss percentage the leaderboard chart takes up for a weigh-in
\* is max(0, (startWeight - weight) / startWeight * 100) of the participant's
\* start weight and the weigh-in's weight, and is not negative, also for a
\* weight above the start weight.
C24_ChartPercentageClamped ==
    [][chart' # chart =>
        \A i \in 1..Len(chart'), year \in Years :
            \A k \in 1..Len(chart'[i].data) :
                LET point == chart'[i].data[k]
                    participant == db.participants[participantRef(year, chart'[i].userId)]
                    weighIn == db.weighIns[weighInRef(year, chart'[i].userId, point.week)]
                IN  /\ ~JsGreater(Num(0), point.weightLossPercentage)
                    /\ ("startWeight" \in DOMAIN participant /\ participant.startWeight > 0)
                            => point.weightLossPercentage =
                                    ClampedLossPercentage(participant.startWeight,
                                                          weighIn.weight)]_vars

\* the chart holds 0 % for a participant whose weight is above the start
\* weight, and a positive percentage for one below
C24_ChartHoldsGainAndLoss ==
    /\ \E i \in 1..Len(chart) :
            /\ participantRef(2026, chart[i].userId) \in DOMAIN db.participants
            /\ "startWeight" \in DOMAIN db.participants[participantRef(2026, chart[i].userId)]
            /\ db.participants[participantRef(2026, chart[i].userId)].startWeight < 2152
            /\ chart[i].data[1].weight = Num(2152)
            /\ chart[i].data[1].weightLossPercentage = Num(0)
    /\ \E i \in 1..Len(chart) :
            JsGreater(chart[i].data[1].weightLossPercentage, Num(0))

---------------------------------------------------------------------------
(* PersonalProgressChart.                                                  *)

\* getParticipants of the untyped version: the documents with their ids
getParticipants_A(d, year) ==
    LET docs == OrderByUid(participantsRef(d, year))
    IN  [i \in 1..Len(docs) |-> WithId(d.participants, docs[i])]

getParticipants(v, d, year) ==
    IF v = "T" THEN getParticipants_T(d, year) ELSE getParticipants_A(d, year)

\* participants.find(p => p.userId === userId)
FindParticipant(participants, userId) ==
    LET hits == {i \in 1..Len(participants) :
                    /\ "userId" \in DOMAIN participants[i]
                    /\ participants[i].userId = userId}
    IN  IF hits = {} THEN null
        ELSE participants[CHOOSE i \in hits : \A j \in hits : i <= j]

\* the entry of the weigh-in at index, after the entry of week 0
ProgressEntry(participant, weighIns, index) ==
    LET startWeight == NumField(participant, "startWeight")
        weight == NumField(weighIns[index], "weight")
        weightLoss == JsSub(startWeight, weight)
    IN  [week |-> weighIns[index].weekNumber,
         weight |-> weight,
         weightLoss |-> weightLoss,
         weightLossPercentage |-> JsMul(JsDiv(weightLoss, startWeight), Num(100)),
         weeklyChange |-> IF index = 1 THEN JsSub(startWeight, weight)
                          ELSE JsSub(NumField(weighIns[index - 1], "weight"), weight)]

\* for comparison: every weekly change is counted from the start weight
ProgressSeries_fromStart(participant, weighIns) ==
    <<[week |-> 0, weight |-> NumField(participant, "startWeight"), weightLoss |-> Num(0),
       weightLossPercentage |-> Num(0), weeklyChange |-> Num(0)]>>
    \o [index \in 1..Len(weighIns) |-> ProgressEntry(participant, weighIns, 1)]

\* chartData: week 0 with the start weight, then the weigh-ins
ProgressSeries(participant, weighIns) ==
    <<[week |-> 0, weight |-> NumField(participant, "startWeight"), weightLoss |-> Num(0),
       weightLossPercentage |-> Num(0), weeklyChange |-> Num(0)]>>
    \o [index \in 1..Len(weighIns) |-> ProgressEntry(participant, weighIns, index)]

\* loadChartData of PersonalProgressChart with the service of version v, for
\* the signed-in user auth: the new data state.  A read the rules refuse
\* throws; the typed getParticipants has no catch, so the component's catch
\* leaves the state, the untyped one returns [].
loadProgressData(v, d, auth, year, userId, data) ==
    IF ~AllowedList(d, auth, "weighIns", participantRef(year, userId))
    THEN data
    ELSE LET weighIns == getWeighIns(v, d, year, userId)
             participants ==
                IF AllowedList(d, auth, "participants", competitionRef(year))
                THEN getParticipants(v, d, year) ELSE <<>>
             participant == FindParticipant(participants, userId)
         IN  IF Len(weighIns) = 0 THEN <<>>
             ELSE IF v = "T" /\ ~AllowedList(d, auth, "participants", competitionRef(year))
             THEN data
             ELSE IF participant = null THEN <<>>
             ELSE ProgressSeries(participant, weighIns)

---------------------------------------------------------------------------
(* The progress specification: a user joins, submits weigh-ins for two     *)
(* weeks and the dashboard loads the personal progress chart.              *)

ProgressWeeks == {1, 2}

ProgressWeights == {2152, 2185}

ServiceVersions == {"A", "T"}

ProgressSubmit ==
    \E v \in Versions, year \in Years, userId \in RealUserIds,
       weekNumber \in ProgressWeeks, weight \in ProgressWeights, notes \in PartNotes :
        /\ SubmitWeighIn(v, year, userId, weekNumber, weight, notes, FALSE)

\* the dashboard of the signed-in user shows the PersonalProgressChart
LoadProgress ==
    \E v \in ServiceVersions, year \in Years :
        /\ user # none
        /\ progressChart' = loadProgressData(v, db, user, year, user, progressChart)
        /\ UNCHANGED <<db, sessionVars, historyVars, testCall, listenerVars, secondTab, routeElement>>

NextProgress ==
    \/ PartJoin
    \/ ProgressSubmit
    \/ LoadProgress

SpecProgress == InitChart /\ [][NextProgress]_vars

\* the sum of the weeklyChange values of the entries from index on
RECURSIVE SumOfWeeklyChanges(_, _)
SumOfWeeklyChanges(series, index) ==
    IF index > Len(series) THEN Num(0)
    ELSE JsSub(series[index].weeklyChange,
               JsSub(Num(0), SumOfWeeklyChanges(series, index + 1)))

\* C25: in the personal progress series a load gives for a participant with
\* a start weight, the first entry is week 0 with the start weight and no loss,
\* every later entry's weeklyChange is the weight of the entry before minus
\* its own, and the weeklyChange values sum to the last entry's weightLoss,
\* the start weight minus the last weight.
C25_WeeklyChangesTelescope ==
    [][(/\ progressChart' # progressChart
        /\ progressChart' # <<>>
        /\ IsFinite(progressChart'[1].weight)) =>
        LET series == progressChart'
            last == series[Len(series)]
        IN  /\ \E year \in Years :
                series[1].weight =
                    Num(db.participants[participantRef(year, user)].startWeight)
            /\ series[1].week = 0
            /\ series[1].weightLoss = Num(0)
            /\ series[1].weeklyChange = Num(0)
            /\ \A k \in 2..Len(series) :
                    series[k].weeklyChange = JsSub(series[k - 1].weight, series[k].weight)
            /\ last.weightLoss = JsSub(series[1].weight, last.weight)
            /\ SumOfWeeklyChanges(series, 1) = last.weightLoss]_vars

\* the series has two weigh-ins, a loss and then a gain
C25_SeriesWithLossAndGain ==
    /\ Len(progressChart) = 3
    /\ progressChart[1].weight = Num(2200)
    /\ progressChart[2].weight = Num(2152)
    /\ progressChart[3].weight = Num(2185)
    /\ progressChart[3].weeklyChange = Num(-33)

---------------------------------------------------------------------------
(* The loading state of a page.  WeighInPage starts with loading = TRUE    *)
(* and its effect runs loadWeighInData once for the user that useAuth      *)
(* gives, which the component does not require to be there.                *)

\* the awaited reads of loadWeighInData: getCompetitions, hasWeighInForWeek,
\* getWeighIns; 0 is no read
LoadSteps == 0..3

\* loadWeighInData when the read numbered failed is rejected by the store: the
\* state set before it stays, the catch block shows the failure and the
\* finally block ends the loading state; the return for a missing user comes
\* before the try statement
loadWeighInDataStore(page, v, d, auth, today, failed) ==
    IF auth = none THEN page
    ELSE LET activeCompetition == FindActive(getCompetitions(d), today)
             loaded == loadWeighInData(page, v, d, auth, today)
             shown == [page EXCEPT !.toast = "Failed to load weigh-in data",
                                   !.loading = FALSE]
         IN  IF failed = 1 THEN shown
             ELSE IF failed = 0 \/ activeCompetition = null THEN loaded
             ELSE IF failed = 2
                  THEN [shown EXCEPT !.currentCompetition = loaded.currentCompetition,
                                     !.currentWeek = loaded.currentWeek]
                  ELSE [shown EXCEPT !.currentCompetition = loaded.currentCompetition,
                                     !.currentWeek = loaded.currentWeek,
                                     !.hasSubmittedThisWeek = loaded.hasSubmittedThisWeek]

\* the page is mounted and its effect has run to the end
MountWeighInPage ==
    \E v \in Versions, failed \in LoadSteps :
        /\ weighInPage' = loadWeighInDataStore(WeighInPageMounted(1), v, db, user, now, failed)
        /\ UNCHANGED <<db, accounts, user, rules, now, chart, adminUsers,
                       selectedCompetition, historyVars, otherVars>>

NextLoad ==
    \/ SignIn
    \/ SignOut
    \/ ClockAdvances
    \/ MountWeighInPage
    \/ SubmitFormStore

SpecLoad == InitUI /\ [][NextLoad]_vars

\* C26: a load that has returned has left the loading state, whether the
\* store calls succeeded, failed, or were skipped because no user is present.
C26_LoadLeavesLoading ==
    weighInPage # null => ~weighInPage.loading

---------------------------------------------------------------------------
(* AuthService.onAuthStateChanged.  The listener is called at every change *)
(* of the signed-in identity, in the order of the changes.  For an         *)
(* identity it starts getUserData and calls the callback when the read     *)
(* answers; for none it calls callback(null) at once.                      *)

\* the listener body up to its first await: the fetches in flight and the
\* delivered user after the event firebaseUser
onAuthStateChangedEvent(fetches, delivered, firebaseUser) ==
    IF firebaseUser # none
    THEN [fetches |-> fetches \cup {firebaseUser}, delivered |-> delivered]
    ELSE [fetches |-> fetches, delivered |-> null]

\* the rest of the listener body: getUserData(uid) has answered
onUserDataAnswer(d, uid) ==
    LET r == getUserData(d, uid, NoFailure)
    IN  IF r.threw THEN null ELSE r.value

\* the identity changes by a call of signIn or register, and the listener runs
ListenerChange(r) ==
    /\ user' = r.session
    /\ db' = r.db
    /\ accounts' = r.accounts
    /\ LET l == IF r.session # user
                THEN onAuthStateChangedEvent(authFetches, authUser, r.session)
                ELSE [fetches |-> authFetches, delivered |-> authUser]
       IN  /\ authFetches' = l.fetches
           /\ authUser' = l.delivered
    /\ UNCHANGED <<rules, now, pageVars, historyVars, testCall, progressChart, secondTab, routeElement>>

ListenerRegister ==
    \E form \in AuthForms :
        /\ user = none
        /\ ListenerChange(register(db, accounts, user, form, NoFailure))

ListenerSignIn ==
    \E form \in AuthForms :
        /\ UidOf(form.email) \in accounts
        /\ ListenerChange(signIn(db, accounts, user, form, NoFailure))

ListenerSignOut ==
    /\ user # none
    /\ user' = none
    /\ LET l == onAuthStateChangedEvent(authFetches, authUser, none)
       IN  /\ authFetches' = l.fetches
           /\ authUser' = l.delivered
    /\ UNCHANGED <<db, accounts, rules, now, pageVars, historyVars, testCall, progressChart, secondTab, routeElement>>

\* a getUserData of the listener answers and its callback is called
UserDataAnswers ==
    \E uid \in authFetches :
        /\ authFetches' = authFetches \ {uid}
        /\ authUser' = onUserDataAnswer(db, uid)
        /\ UNCHANGED <<db, sessionVars, historyVars, testCall, progressChart, secondTab, routeElement>>

NextListener ==
    \/ ListenerRegister
    \/ ListenerSignIn
    \/ ListenerSignOut
    \/ UserDataAnswers

SpecListener == InitAccess /\ [][NextListener]_vars

\* C27: once every fetch the listener started has answered, the user last
\* delivered to the callback is that of the latest auth state event: null
\* after a sign-out, and no other identity than the one signed in.
C27_DeliveredUserIsLatest ==
    authFetches = {} =>
        /\ user = none => authUser = null
        /\ authUser # null => authUser.uid = user

\* C28: register is all-or-nothing.  A call that fails leaves no account and
\* no user document for the email that were not there before the call; a
\* call that succeeds leaves both, and the document has role 'regular'.
C28_RegisterAllOrNothing ==
    \A form \in AuthForms, fail \in FailInputs(RegisterSteps) :
        LET uid == UidOf(form.email)
            r == register(db, accounts, user, form, fail)
        IN  IF r.threw
            THEN /\ uid \in r.accounts => uid \in accounts
                 /\ userRef(uid) \in DOMAIN r.db.users => userRef(uid) \in DOMAIN db.users
            ELSE /\ uid \in r.accounts
                 /\ userRef(uid) \in DOMAIN r.db.users
                 /\ r.db.users[userRef(uid)].role = "regular"

---------------------------------------------------------------------------
(* One user with the weigh-in page open in two tabs of the browser.  Each  *)
(* tab is an instance of the component with its own state; the store and   *)
(* the session are shared.                                                 *)

TabWeights == {2140, 2152}

InitTabs ==
    /\ db = createCompetition_A(
                [AdminMade EXCEPT !.users =
                    setDoc(@, userRef("u1"), RegisteredUser("u1", "ann@example.com", "Ann"))],
                2026,
                [startDate |-> 0, status |-> "active",
                 weighInDates |-> GeneratedWeighInDates(0)],
                "admin").db
    /\ accounts = {"a1", "u1"}
    /\ user = "u1"
    /\ rules = "permissive"
    /\ PagesClosed
    /\ now = 0
    /\ lastWrite = EmptyCollection
    /\ rewritten = {}
    /\ InitOther

\* the form is rendered by a page in state page
FormOffered(page) ==
    /\ page # null
    /\ page.build = 1
    /\ ~page.loading
    /\ page.currentCompetition # null
    /\ ~page.hasSubmittedThisWeek
    /\ user # none

OpenSecondTab ==
    \E v \in Versions, failed \in LoadSteps :
        /\ secondTab' = loadWeighInDataStore(WeighInPageMounted(1), v, db, user, now, failed)
        /\ UNCHANGED <<db, sessionVars, historyVars, testCall, progressChart, listenerVars, routeElement>>

\* the form of the first tab is sent with a weight validateWeight accepts
TabSubmit ==
    \E v \in Versions, weight \in TabWeights, notes \in FormNotes :
        /\ FormOffered(weighInPage)
        /\ ~weighInPage.submitting
        /\ validateWeight(weight, weighInPage.lastWeighIn)
        /\ LET r == onSubmit(weighInPage, v, db, user, now, weight, notes)
           IN  /\ db' = r.db
               /\ weighInPage' = r.page
        /\ UNCHANGED <<accounts, user, rules, now, chart, adminUsers,
                       selectedCompetition, historyVars, otherVars>>

\* the form of the second tab is sent
SecondTabSubmit ==
    \E v \in Versions, weight \in TabWeights, notes \in FormNotes :
        /\ FormOffered(secondTab)
        /\ ~secondTab.submitting
        /\ validateWeight(weight, secondTab.lastWeighIn)
        /\ LET r == onSubmit(secondTab, v, db, user, now, weight, notes)
           IN  /\ db' = r.db
               /\ secondTab' = r.page
        /\ UNCHANGED <<sessionVars, historyVars, testCall, progressChart, listenerVars, routeElement>>

NextTabs ==
    \/ ClockAdvances
    \/ MountWeighInPage
    \/ OpenSecondTab
    \/ TabSubmit
    \/ SecondTabSubmit

SpecTabs == InitTabs /\ [][NextTabs]_vars

\* the form is offered by a page for a week that has a weigh-in in the store
OfferedWithWeighIn(page) ==
    /\ FormOffered(page)
    /\ hasWeighInForWeek(db, page.currentCompetition.year, user, page.currentWeek)

\* C29: through the weigh-in page a user submits at most one weigh-in per
\* competition week: no page offers the form for a week whose weigh-in is in
\* the store, and no submission of a page replaces a weigh-in that is there.
C29_OneWeighInPerWeek ==
    /\ [](~OfferedWithWeighIn(weighInPage) /\ ~OfferedWithWeighIn(secondTab))
    /\ [][\A ref \in DOMAIN db.weighIns : db'.weighIns[ref] = db.weighIns[ref]]_vars

---------------------------------------------------------------------------
(* A route under ProtectedRoute is rendered with the user the auth         *)
(* listener delivered; the loading flag of useAuth is an input.            *)

RenderRoute ==
    \E loading \in BOOLEAN, requireAdmin \in BOOLEAN :
        /\ routeElement' = [loading |-> loading, user |-> authUser,
                            requireAdmin |-> requireAdmin,
                            element |-> ProtectedRouteElement(loading, authUser, requireAdmin)]
        /\ UNCHANGED <<db, sessionVars, historyVars, testCall, progressChart,
                       listenerVars, secondTab>>

NextRoute ==
    \/ ListenerRegister
    \/ ListenerSignIn
    \/ ListenerSignOut
    \/ UserDataAnswers
    \/ UpdateUserRole
    \/ RenderRoute

SpecRoute == InitAccess /\ [][NextRoute]_vars

\* C30: ProtectedRoute renders its children only when loading is over and a
\* user is there, and on a requireAdmin route only when the user's role is
\* admin; while loading it renders the spinner, without a user it redirects
\* to /login, and a user who is no admin is redirected from an admin route to
\* /dashboard.
C30_ProtectedRouteGuards ==
    routeElement # null =>
        LET r == routeElement
            allowed == /\ ~r.loading
                       /\ r.user # null
                       /\ r.requireAdmin => r.user.role = "admin"
        IN  /\ r.element = "children" <=> allowed
            /\ r.loading => r.element = "LoadingSpinner"
            /\ (~r.loading /\ r.user = null) => r.element = "/login"
            /\ (~r.loading /\ r.user # null /\ r.requireAdmin /\ r.user.role # "admin")
                    => r.element = "/dashboard"

\* an admin route was rendered for a regular user, who was sent to /dashboard
C30_RegularUserOnAdminRoute ==
    /\ routeElement # null
    /\ ~routeElement.loading
    /\ routeElement.requireAdmin
    /\ routeElement.user # null
    /\ routeElement.user.role = "regular"
    /\ routeElement.element = "/dashboard"

====
